---- MODULE Spec2Model ----
(***************************************************************************)
(* GridMadness: the isometric tile viewer's coordinate pipeline.           *)
(*                                                                         *)
(* Objects are records of their fields, one variable per object:           *)
(*   map_grid            MapGrid            (src/main.py)                  *)
(*   viewport_manager    ViewportManager    (src/viewport_manager.py)      *)
(*   iso_renderer        IsometricRenderer  (src/isometric_renderer.py)    *)
(*   mouse_hit_detector  MouseHitDetector   (src/mouse_hit_detector.py)    *)
(*   app                 App                (src/main.py)                  *)
(* frame_count counts the frames the Pyxel run loop has started           *)
(* (pyxel.frame_count), and `ret` records the last call made on an        *)
(* object's interface and the value it returned.                          *)
(*                                                                         *)
(* Numbers.  Python floats are modelled as exact fixed-point rationals:    *)
(*   zoom is held in twentieths (ZoomScale), sin/cos in hundredths         *)
(*   (TrigScale), screen coordinates in 1/(ZoomScale*TrigScale) pixels     *)
(*   (ScreenScale).  Rounding of IEEE doubles is not modelled.             *)
(* A Python dict is a function with a finite domain, None is << >>, a      *)
(* list is a sequence (index i of the code is index i+1 here).             *)
(* The statistics counters (cache_hits, hit_tests, ...) are left out:      *)
(* they are only ever incremented, reset and reported.                     *)
(***************************************************************************)
EXTENDS Integers, Sequences, FiniteSets, TLC

VARIABLES map_grid, viewport_manager, iso_renderer, mouse_hit_detector, app,
          frame_count, ret

vars == <<map_grid, viewport_manager, iso_renderer, mouse_hit_detector, app,
          frame_count, ret>>

None == << >>

\* the element of a one-element set.  The({F(x) : x \in {e}}) is F(e) with e
\* evaluated once, before F: the strict evaluation of the program.
The(S) == CHOOSE r \in S : TRUE

max(a, b) == IF a >= b THEN a ELSE b

min(a, b) == IF a <= b THEN a ELSE b

(***************************************************************************)
(* Program constants                                                       *)
(***************************************************************************)
VIEWPORT_SIZE == 16

CELL_SIZE == 16

HEIGHT_UNIT == 3

WIN_WIDTH == 256

WIN_HEIGHT == 256

MAP_SIZE == 256

\* the literal 256 of ViewportState.__post_init__, move_viewport,
\* set_viewport_position, preload_surrounding_area and reset_to_center
VM_MAP_LIMIT == 256

CACHE_SIZE == 100

VIEWPORT_CACHE_SIZE == 20

(***************************************************************************)
(* Tiles and the backing grid                                              *)
(***************************************************************************)
\* main.Tile; floor_id "xxx_yyy" is held as the pair it is formatted from,
\* color is left out (it is only painted).
Tile(x, y, height, attribute) ==
    [floor_id |-> <<x, y>>, height |-> height, attribute |-> attribute]

\* The contents of MapGrid.tiles: a flat map of one height with one spike.
\* create_empty_map builds the flat map of height 1.
MapData(flat, sx, sy, spike_height) ==
    [flat |-> flat, spike |-> <<sx, sy>>, spike_height |-> spike_height]

create_empty_map == MapData(1, 0, 0, 1)

\* MapGrid.tiles[y][x]
TileOf(tiles, x, y) ==
    Tile(x, y, IF <<x, y>> = tiles.spike THEN tiles.spike_height ELSE tiles.flat, 1)

\* MapGrid.get_tile
get_tile(grid, x, y) ==
    IF 0 <= x /\ x < grid.map_size /\ 0 <= y /\ y < grid.map_size
    THEN TileOf(grid.tiles, x, y)
    ELSE None

\* the placeholder get_viewport_tiles_cached builds for an absent tile
DummyTile(map_x, map_y) == Tile(map_x, map_y, 1, 0)

\* ClampToMap without the clamp: the position as requested
ClampToMapUnclamped(v, size) == v

(***************************************************************************)
(* ViewportManager                                                         *)
(***************************************************************************)
\* max(0, min(v, 256 - size))
ClampToMap(v, size) == max(0, min(v, VM_MAP_LIMIT - size))

\* ViewportState(size=...) with __post_init__
ViewportState(x, y, size) ==
    [x |-> ClampToMap(x, size), y |-> ClampToMap(y, size), size |-> size]

\* list.remove(key): drops the first occurrence
ListRemove(order, key) ==
    LET at == {j \in 1..Len(order) : order[j] = key}
        i  == CHOOSE j \in at : \A k \in at : j <= k
    IN  SubSeq(order, 1, i - 1) \o SubSeq(order, i + 1, Len(order))

\* d[key] = value
DictSet(d, key, value) == (key :> value) @@ d

\* del d[key]
DictDel(d, key) == [k \in DOMAIN d \ {key} |-> d[k]]

\* ViewportManager._update_lru_cache: the new (cache_dict, access_order)
update_lru_cache(cache_dict, access_order, key, value, max_size) ==
    LET hit   == key \in DOMAIN cache_dict
        full  == ~hit /\ Cardinality(DOMAIN cache_dict) >= max_size
        order == IF hit THEN ListRemove(access_order, key)
                 ELSE IF full THEN Tail(access_order)
                 ELSE access_order
        dict  == IF full THEN DictDel(cache_dict, Head(access_order)) ELSE cache_dict
    IN  [cache |-> DictSet(dict, key, value), order |-> Append(order, key)]

\* get_tile_cached reading the backing grid every time and dropping the
\* manager's current slice
GetTileCachedDroppingSlice(vm, grid, x, y) ==
    [vm |-> [vm EXCEPT !.current_tiles = None], tile |-> get_tile(grid, x, y)]

\* get_tile_cached with a cache hit that leaves the access order as it is
GetTileCachedWithoutRefresh(vm, grid, x, y) ==
    LET cache_key == <<x, y>>
    IN  IF cache_key \in DOMAIN vm.tile_cache
        THEN [vm |-> vm, tile |-> vm.tile_cache[cache_key]]
        ELSE LET tile == get_tile(grid, x, y)
                 lru  == update_lru_cache(vm.tile_cache, vm.cache_access_order,
                                          cache_key, tile, vm.cache_size)
             IN  IF tile # None
                 THEN [vm   |-> [vm EXCEPT !.tile_cache = lru.cache,
                                           !.cache_access_order = lru.order],
                       tile |-> tile]
                 ELSE [vm |-> vm, tile |-> tile]

\* get_tile_cached that stores the tile whether or not there is one
GetTileCachedStoringNone(vm, grid, x, y) ==
    LET cache_key == <<x, y>>
    IN  IF cache_key \in DOMAIN vm.tile_cache
        THEN [vm   |-> [vm EXCEPT !.cache_access_order =
                               Append(ListRemove(@, cache_key), cache_key)],
              tile |-> vm.tile_cache[cache_key]]
        ELSE LET tile == get_tile(grid, x, y)
                 lru  == update_lru_cache(vm.tile_cache, vm.cache_access_order,
                                          cache_key, tile, vm.cache_size)
             IN  [vm   |-> [vm EXCEPT !.tile_cache = lru.cache,
                                      !.cache_access_order = lru.order],
                  tile |-> tile]

\* ViewportManager.get_tile_cached: the manager after the call and the tile
get_tile_cached(vm, grid, x, y) ==
    LET cache_key == <<x, y>>
    IN  IF cache_key \in DOMAIN vm.tile_cache
        THEN [vm   |-> [vm EXCEPT !.cache_access_order =
                               Append(ListRemove(@, cache_key), cache_key)],
              tile |-> vm.tile_cache[cache_key]]
        ELSE LET tile == get_tile(grid, x, y)
                 lru  == update_lru_cache(vm.tile_cache, vm.cache_access_order,
                                          cache_key, tile, vm.cache_size)
             IN  IF tile # None
                 THEN [vm   |-> [vm EXCEPT !.tile_cache = lru.cache,
                                           !.cache_access_order = lru.order],
                       tile |-> tile]
                 ELSE [vm |-> vm, tile |-> tile]

\* one pass of the body of the double loop of get_viewport_tiles_cached, for
\* cell st.i (row-major): st holds the manager, the rows built and the index
ViewportCell(st, grid, start_x, start_y, size) ==
    LET x     == st.i % size
        y     == st.i \div size
        map_x == start_x + x
        map_y == start_y + y
        row(got) ==
            LET tile == IF got.tile = None THEN DummyTile(map_x, map_y) ELSE got.tile
            IN  IF x = 0
                THEN Append(st.viewport, <<tile>>)
                ELSE [st.viewport EXCEPT ![y + 1] = Append(@, tile)]
    IN  The({[vm |-> got.vm, viewport |-> row(got), i |-> st.i + 1] :
                 got \in {get_tile_cached(st.vm, grid, map_x, map_y)}})

\* the next n passes of the loop, in order.  The passes are split in two
\* halves, the first evaluated before the second starts, which keeps the
\* depth of the evaluation logarithmic in n.
RECURSIVE ViewportLoop(_, _, _, _, _, _)
ViewportLoop(st, grid, start_x, start_y, size, n) ==
    IF n = 0 THEN st
    ELSE IF n = 1 THEN ViewportCell(st, grid, start_x, start_y, size)
    ELSE The({ViewportLoop(first, grid, start_x, start_y, size, n - n \div 2) :
                  first \in {ViewportLoop(st, grid, start_x, start_y, size,
                                          n \div 2)}})

\* ViewportManager.get_viewport_tiles_cached: the manager after the call and
\* the slice returned
get_viewport_tiles_cached(vm, grid, start_x, start_y, size) ==
    LET cache_key == <<start_x, start_y, size>>
    IN  IF cache_key \in DOMAIN vm.viewport_cache
        THEN [vm    |-> [vm EXCEPT !.viewport_access_order =
                                Append(ListRemove(@, cache_key), cache_key)],
              tiles |-> vm.viewport_cache[cache_key]]
        ELSE LET stored(built) ==
                     LET lru == update_lru_cache(built.vm.viewport_cache,
                                                 built.vm.viewport_access_order,
                                                 cache_key, built.viewport,
                                                 VIEWPORT_CACHE_SIZE)
                     IN  [vm    |-> [built.vm EXCEPT
                                        !.viewport_cache = lru.cache,
                                        !.viewport_access_order = lru.order],
                          tiles |-> built.viewport]
             IN  The({stored(built) :
                          built \in {ViewportLoop(
                                         [vm |-> vm, viewport |-> << >>, i |-> 0],
                                         grid, start_x, start_y, size,
                                         size * size)}})

\* ViewportManager._update_current_tiles
update_current_tiles(vm, grid) ==
    The({[got.vm EXCEPT !.current_tiles = got.tiles] :
             got \in {get_viewport_tiles_cached(vm, grid, vm.viewport_state.x,
                                                vm.viewport_state.y,
                                                vm.viewport_state.size)}})

\* ViewportManager.__init__
NewViewportManager(grid, viewport_size, cache_size) ==
    update_current_tiles(
        [viewport_size         |-> viewport_size,
         cache_size            |-> cache_size,
         viewport_state        |-> ViewportState(120, 120, viewport_size),
         tile_cache            |-> << >>,
         cache_access_order    |-> << >>,
         viewport_cache        |-> << >>,
         viewport_access_order |-> << >>,
         current_tiles         |-> None],
        grid)

\* ViewportManager.set_viewport_position: the manager after the call and
\* the value returned
set_viewport_position(vm, grid, x0, y0) ==
    LET x == ClampToMap(x0, vm.viewport_state.size)
        y == ClampToMap(y0, vm.viewport_state.size)
    IN  IF x # vm.viewport_state.x \/ y # vm.viewport_state.y
        THEN [vm  |-> update_current_tiles(
                          [vm EXCEPT !.viewport_state.x = x, !.viewport_state.y = y],
                          grid),
              ret |-> TRUE]
        ELSE [vm |-> vm, ret |-> FALSE]

\* move_viewport comparing the target before it is clamped with the position
MoveComparesUnclamped(vm, grid, dx, dy) ==
    LET new_x == ClampToMap(vm.viewport_state.x + dx, vm.viewport_state.size)
        new_y == ClampToMap(vm.viewport_state.y + dy, vm.viewport_state.size)
    IN  IF dx # 0 \/ dy # 0
        THEN [vm  |-> update_current_tiles(
                          [vm EXCEPT !.viewport_state.x = new_x,
                                     !.viewport_state.y = new_y],
                          grid),
              ret |-> TRUE]
        ELSE [vm |-> vm, ret |-> FALSE]

\* ViewportManager.move_viewport
move_viewport(vm, grid, dx, dy) ==
    LET new_x == ClampToMap(vm.viewport_state.x + dx, vm.viewport_state.size)
        new_y == ClampToMap(vm.viewport_state.y + dy, vm.viewport_state.size)
    IN  IF new_x # vm.viewport_state.x \/ new_y # vm.viewport_state.y
        THEN [vm  |-> update_current_tiles(
                          [vm EXCEPT !.viewport_state.x = new_x,
                                     !.viewport_state.y = new_y],
                          grid),
              ret |-> TRUE]
        ELSE [vm |-> vm, ret |-> FALSE]

\* ViewportManager.reset_to_center
reset_to_center(vm, grid) ==
    LET center_x == (VM_MAP_LIMIT - vm.viewport_state.size) \div 2
        center_y == (VM_MAP_LIMIT - vm.viewport_state.size) \div 2
    IN  set_viewport_position(vm, grid, center_x, center_y).vm

\* ViewportManager.clear_cache
vm_clear_cache(vm) ==
    [vm EXCEPT !.tile_cache = << >>, !.cache_access_order = << >>,
               !.viewport_cache = << >>, !.viewport_access_order = << >>]

\* ViewportManager.get_current_tiles
get_current_tiles(vm) == vm.current_tiles

\* ViewportManager.get_viewport_position
get_viewport_position(vm) == <<vm.viewport_state.x, vm.viewport_state.y>>

\* ViewportManager.get_viewport_bounds: <<min_x, min_y, max_x, max_y>>
get_viewport_bounds(vm) ==
    <<vm.viewport_state.x, vm.viewport_state.y,
      vm.viewport_state.x + vm.viewport_state.size - 1,
      vm.viewport_state.y + vm.viewport_state.size - 1>>

\* ViewportManager.is_position_in_viewport
is_position_in_viewport(vm, map_x, map_y) ==
    LET bounds == get_viewport_bounds(vm)
    IN  /\ bounds[1] <= map_x /\ map_x <= bounds[3]
        /\ bounds[2] <= map_y /\ map_y <= bounds[4]

\* map_to_viewport_coords without the window test: the difference, always
MapToViewportUnchecked(vm, map_x, map_y) ==
    <<map_x - vm.viewport_state.x, map_y - vm.viewport_state.y>>

\* ViewportManager.map_to_viewport_coords
map_to_viewport_coords(vm, map_x, map_y) ==
    IF ~is_position_in_viewport(vm, map_x, map_y)
    THEN None
    ELSE <<map_x - vm.viewport_state.x, map_y - vm.viewport_state.y>>

\* ViewportManager.viewport_to_map_coords
viewport_to_map_coords(vm, viewport_x, viewport_y) ==
    <<vm.viewport_state.x + viewport_x, vm.viewport_state.y + viewport_y>>

\* one pass of the double loop of preload_surrounding_area, for the i-th
\* (dy, dx) of the (2 * radius + 1) squared: the manager after it
PreloadStep(vm, grid, current, size, radius, i) ==
    LET side      == 2 * radius + 1
        dy        == (i \div side) - radius
        dx        == (i % side) - radius
        preload_x == current[1] + dx * size
        preload_y == current[2] + dy * size
    IN  IF /\ 0 <= preload_x /\ preload_x <= VM_MAP_LIMIT - size
           /\ 0 <= preload_y /\ preload_y <= VM_MAP_LIMIT - size
        THEN get_viewport_tiles_cached(vm, grid, preload_x, preload_y, size).vm
        ELSE vm

\* the n passes from the i-th on, in order, split in two halves as in
\* ViewportLoop
RECURSIVE PreloadLoop(_, _, _, _, _, _, _)
PreloadLoop(vm, grid, current, size, radius, i, n) ==
    IF n = 0 THEN vm
    ELSE IF n = 1 THEN PreloadStep(vm, grid, current, size, radius, i)
    ELSE The({PreloadLoop(first, grid, current, size, radius, i + n \div 2,
                          n - n \div 2) :
                  first \in {PreloadLoop(vm, grid, current, size, radius, i,
                                         n \div 2)}})

\* ViewportManager.preload_surrounding_area: the manager after the call
preload_surrounding_area(vm, grid, radius) ==
    PreloadLoop(vm, grid, get_viewport_position(vm), vm.viewport_state.size,
                radius, 0, (2 * radius + 1) * (2 * radius + 1))


(***************************************************************************)
(* IsometricRenderer                                                       *)
(***************************************************************************)
\* sin and cos are held in hundredths
TrigScale == 100

\* zoom is held in twentieths: Z and X change it by 0.05, the wheel by 0.1
ZoomScale == 20

\* screen coordinates are held in 1/ScreenScale pixels
ScreenScale == ZoomScale * TrigScale

\* math.sin(math.radians(rotation)) in hundredths, rotation a multiple of 15
SinTable ==
    <<0, 26, 50, 71, 87, 97, 100, 97, 87, 71, 50, 26,
      0, -26, -50, -71, -87, -97, -100, -97, -87, -71, -50, -26>>

Sin(rotation) == SinTable[((rotation % 360) \div 15) + 1]

\* math.cos(math.radians(rotation)) in hundredths
Cos(rotation) == Sin(rotation + 90)

\* CameraState(rotation, zoom, offset_x, offset_y, center_x, center_y):
\* rotation in degrees, zoom in twentieths, offsets and centre in pixels
CameraState(rotation, zoom, offset_x, offset_y, center_x, center_y) ==
    [rotation |-> rotation, zoom |-> zoom, offset_x |-> offset_x,
     offset_y |-> offset_y, center_x |-> center_x, center_y |-> center_y]

\* IsometricRenderer.__init__
NewIsometricRenderer(cell_size, height_unit) ==
    [cell_size |-> cell_size, height_unit |-> height_unit, coord_cache |-> << >>]

\* IsometricRenderer.clear_cache
iso_clear_cache(renderer) == [renderer EXCEPT !.coord_cache = << >>]


\* _rotate_coordinates turning about the grid's origin: the centre is not
\* subtracted before the rotation nor added back after it
RotateAboutOrigin(grid_x, grid_y, rotation, center) ==
    <<grid_x * Cos(rotation) - grid_y * Sin(rotation),
      grid_x * Sin(rotation) + grid_y * Cos(rotation)>>

\* _rotate_coordinates whose rotation-0 path returns the coordinates relative
\* to the centre, as the general path has them before the centre is added back
RotateRelativeAtZero(grid_x, grid_y, rotation, center) ==
    LET rel_x == grid_x - center[1]
        rel_y == grid_y - center[2]
    IN  IF rotation = 0
        THEN <<rel_x * TrigScale, rel_y * TrigScale>>
        ELSE <<rel_x * Cos(rotation) - rel_y * Sin(rotation) + center[1] * TrigScale,
               rel_x * Sin(rotation) + rel_y * Cos(rotation) + center[2] * TrigScale>>

\* the general path of _rotate_coordinates (the lines after the rotation == 0
\* return), for a cosine and a sine given in 1/TrigScale
rotate_general(grid_x, grid_y, cos_a, sin_a, center) ==
    LET rel_x == grid_x - center[1]
        rel_y == grid_y - center[2]
    IN  <<rel_x * cos_a - rel_y * sin_a + center[1] * TrigScale,
          rel_x * sin_a + rel_y * cos_a + center[2] * TrigScale>>

\* IsometricRenderer._rotate_coordinates: the rotated coordinates, in
\* 1/TrigScale grid cells
rotate_coordinates(grid_x, grid_y, rotation, center) ==
    IF rotation = 0
    THEN <<grid_x * TrigScale, grid_y * TrigScale>>
    ELSE LET cos_a == Cos(rotation)
             sin_a == Sin(rotation)
             rel_x == grid_x - center[1]
             rel_y == grid_y - center[2]
         IN  <<rel_x * cos_a - rel_y * sin_a + center[1] * TrigScale,
               rel_x * sin_a + rel_y * cos_a + center[2] * TrigScale>>

\* viewport_center = (8.0, 8.0) of grid_to_iso and get_tile_depth
RENDER_CENTER == 8


\* grid_to_iso with the pan added before the zoom is applied
PanInsideZoom(renderer, grid_x, grid_y, height, camera_state) ==
    LET rotated == rotate_coordinates(grid_x, grid_y, camera_state.rotation,
                                      <<RENDER_CENTER, RENDER_CENTER>>)
        iso_x   == (rotated[1] - rotated[2]) * (renderer.cell_size \div 2)
                       + camera_state.offset_x * TrigScale
        iso_y   == (rotated[1] + rotated[2]) * (renderer.cell_size \div 4)
                       - height * renderer.height_unit * TrigScale
                       + camera_state.offset_y * TrigScale
    IN  <<camera_state.center_x * ScreenScale + iso_x * camera_state.zoom,
          camera_state.center_y * ScreenScale + iso_y * camera_state.zoom>>

\* the body of grid_to_iso after the cache lookup: the screen point, in
\* 1/ScreenScale pixels
grid_to_iso_compute(renderer, grid_x, grid_y, height, camera_state) ==
    LET viewport_center == <<RENDER_CENTER, RENDER_CENTER>>
        rotated  == rotate_coordinates(grid_x, grid_y, camera_state.rotation,
                                       viewport_center)
        iso_x    == (rotated[1] - rotated[2]) * (renderer.cell_size \div 2)
        iso_y    == (rotated[1] + rotated[2]) * (renderer.cell_size \div 4)
                        - height * renderer.height_unit * TrigScale
        zoomed_x == iso_x * camera_state.zoom
        zoomed_y == iso_y * camera_state.zoom
    IN  <<camera_state.center_x * ScreenScale + zoomed_x
              + camera_state.offset_x * ScreenScale,
          camera_state.center_y * ScreenScale + zoomed_y
              + camera_state.offset_y * ScreenScale>>


\* a cache key of grid_to_iso that leaves the pan out
CoordKeyWithoutPan(grid_x, grid_y, height, camera_state) ==
    <<grid_x, grid_y, height, camera_state.rotation, camera_state.zoom,
      camera_state.center_x, camera_state.center_y>>

\* the cache key of grid_to_iso
CoordKey(grid_x, grid_y, height, camera_state) ==
    <<grid_x, grid_y, height, camera_state.rotation, camera_state.zoom,
      camera_state.offset_x, camera_state.offset_y,
      camera_state.center_x, camera_state.center_y>>

\* IsometricRenderer.grid_to_iso: the renderer after the call and the point
grid_to_iso(renderer, grid_x, grid_y, height, camera_state) ==
    LET cache_key == CoordKey(grid_x, grid_y, height, camera_state)
    IN  IF cache_key \in DOMAIN renderer.coord_cache
        THEN [renderer |-> renderer, result |-> renderer.coord_cache[cache_key]]
        ELSE LET result == grid_to_iso_compute(renderer, grid_x, grid_y, height,
                                               camera_state)
             IN  [renderer |-> [renderer EXCEPT !.coord_cache =
                                    DictSet(@, cache_key, result)],
                  result   |-> result]

\* calculate_diamond_vertices with the walls' height left unzoomed
DiamondUnzoomedHeight(renderer, center_x, center_y, scaled_cell_size, height, zoom) ==
    LET scaled_height == height * renderer.height_unit
        px(n)  == n * ScreenScale
        top    == <<center_x + px(scaled_cell_size \div 2), center_y>>
        left   == <<center_x, center_y + px(scaled_cell_size \div 4)>>
        right  == <<center_x + px(scaled_cell_size),
                    center_y + px(scaled_cell_size \div 4)>>
        bottom == <<center_x + px(scaled_cell_size \div 2),
                    center_y + px(scaled_cell_size \div 2)>>
    IN  [top |-> top, left |-> left, right |-> right, bottom |-> bottom,
         bottom_left   |-> <<left[1], left[2] + px(scaled_height)>>,
         bottom_right  |-> <<right[1], right[2] + px(scaled_height)>>,
         bottom_bottom |-> <<bottom[1], bottom[2] + px(scaled_height)>>]

\* IsometricRenderer.calculate_diamond_vertices: the seven points, in
\* 1/ScreenScale pixels (center_x, center_y in the same unit;
\* scaled_cell_size in pixels).  int() truncates the scaled height.
calculate_diamond_vertices(renderer, center_x, center_y, scaled_cell_size, height, zoom) ==
    LET scaled_height == (height * renderer.height_unit * zoom) \div ZoomScale
        px(n)  == n * ScreenScale
        top    == <<center_x + px(scaled_cell_size \div 2), center_y>>
        left   == <<center_x, center_y + px(scaled_cell_size \div 4)>>
        right  == <<center_x + px(scaled_cell_size),
                    center_y + px(scaled_cell_size \div 4)>>
        bottom == <<center_x + px(scaled_cell_size \div 2),
                    center_y + px(scaled_cell_size \div 2)>>
    IN  [top |-> top, left |-> left, right |-> right, bottom |-> bottom,
         bottom_left   |-> <<left[1], left[2] + px(scaled_height)>>,
         bottom_right  |-> <<right[1], right[2] + px(scaled_height)>>,
         bottom_bottom |-> <<bottom[1], bottom[2] + px(scaled_height)>>]


\* get_tile_depth from the rotated row alone
DepthByRowOnly(grid_x, grid_y, height, camera_state) ==
    rotate_coordinates(grid_x, grid_y, camera_state.rotation,
                       <<RENDER_CENTER, RENDER_CENTER>>)[2]
        - height * (TrigScale \div 10)

\* IsometricRenderer.get_tile_depth, in 1/TrigScale (height * 0.1 is
\* height * TrigScale / 10)
get_tile_depth(grid_x, grid_y, height, camera_state) ==
    LET viewport_center == <<RENDER_CENTER, RENDER_CENTER>>
        rotated == rotate_coordinates(grid_x, grid_y, camera_state.rotation,
                                      viewport_center)
    IN  rotated[1] + rotated[2] - height * (TrigScale \div 10)

(***************************************************************************)
(* MouseHitDetector                                                        *)
(***************************************************************************)
CACHE_MAX_SIZE == 50

\* MouseHitDetector.__init__; result_cache is a dict whose iteration order
\* _cache_result uses: it is held as the sequence of its items in insertion
\* order
NewMouseHitDetector(cell_size, height_unit) ==
    [cell_size |-> cell_size, height_unit |-> height_unit,
     result_cache |-> << >>, cache_max_size |-> CACHE_MAX_SIZE]

\* HitResult; distance_from_center (a square root no caller reads) is left out
HitResult(grid_x, grid_y, map_x, map_y, depth) ==
    [grid_x |-> grid_x, grid_y |-> grid_y, map_x |-> map_x, map_y |-> map_y,
     depth |-> depth]

\* int(n / d) for d > 0: Python's int() truncates toward zero
TruncDiv(n, d) == IF n >= 0 THEN n \div d ELSE -((-n) \div d)

\* the grid estimate of _get_candidate_tiles as the fractions
\* <<x numerator, y numerator, denominator>>; mouse_x, mouse_y in
\* 1/ScreenScale pixels.  With zoom z (twentieths) and T = TrigScale:
\*   iso_x        = (mouse_x - center_x) / zoom - offset_x         = nx / (T z)
\*   grid_x_float = (iso_x / (cell/2) + iso_y / (cell/4)) / 2      = (nx + 2 ny) / (cell T z)
\*   grid_y_float = (iso_y / (cell/4) - iso_x / (cell/2)) / 2      = (2 ny - nx) / (cell T z)
\* and the inverse rotation about viewport_size // 2 multiplies the
\* denominator by T.
grid_estimate(detector, vm, mouse_x, mouse_y, camera_state, win_width, win_height) ==
    LET center_x == win_width \div 2
        center_y == win_height \div 2
        nx  == mouse_x - center_x * ScreenScale
                   - camera_state.offset_x * TrigScale * camera_state.zoom
        ny  == mouse_y - center_y * ScreenScale
                   - camera_state.offset_y * TrigScale * camera_state.zoom
        den == detector.cell_size * TrigScale * camera_state.zoom
        gx  == nx + 2 * ny
        gy  == 2 * ny - nx
    IN  IF camera_state.rotation # 0
        THEN LET cos_angle == Cos(camera_state.rotation)
                 sin_angle == -Sin(camera_state.rotation)
                 center    == vm.viewport_state.size \div 2
                 rel_x     == gx - center * den
                 rel_y     == gy - center * den
             IN  <<rel_x * cos_angle - rel_y * sin_angle + center * den * TrigScale,
                   rel_x * sin_angle + rel_y * cos_angle + center * den * TrigScale,
                   den * TrigScale>>
        ELSE <<gx, gy, den>>

\* MouseHitDetector._get_candidate_tiles: the 5x5 neighbourhood of the
\* truncated estimate, in loop order (dy outer, dx inner), inside the window
get_candidate_tiles(detector, vm, mouse_x, mouse_y, camera_state, win_width, win_height) ==
    LET est    == grid_estimate(detector, vm, mouse_x, mouse_y, camera_state,
                                win_width, win_height)
        base_x == TruncDiv(est[1], est[3])
        base_y == TruncDiv(est[2], est[3])
        all    == [i \in 1..25 |-> <<base_x + ((i - 1) % 5) - 2,
                                     base_y + ((i - 1) \div 5) - 2>>]
        size   == vm.viewport_state.size
    IN  SelectSeq(all, LAMBDA c : 0 <= c[1] /\ c[1] < size /\ 0 <= c[2] /\ c[2] < size)

\* _point_in_triangle without the check of the denominator: a zero-area
\* triangle is tested like any other
PointInTriangleUnguarded(px, py, p1, p2, p3) ==
    LET denom == (p2[2] - p3[2]) * (p1[1] - p3[1]) + (p3[1] - p2[1]) * (p1[2] - p3[2])
        na == (p2[2] - p3[2]) * (px - p3[1] * ScreenScale)
                  + (p3[1] - p2[1]) * (py - p3[2] * ScreenScale)
        nb == (p3[2] - p1[2]) * (px - p3[1] * ScreenScale)
                  + (p1[1] - p3[1]) * (py - p3[2] * ScreenScale)
        one == denom * ScreenScale
        nc == one - na - nb
        unit(n) == IF one >= 0 THEN 0 <= n /\ n <= one ELSE one <= n /\ n <= 0
    IN  unit(na) /\ unit(nb) /\ unit(nc)

\* MouseHitDetector._point_in_triangle with exact arithmetic.  The test is
\* evaluated relative to the tile's screen point: p1, p2, p3 in whole pixels,
\* (px, py) in 1/ScreenScale pixels.  a = na / (denom * ScreenScale) and so on.
point_in_triangle(px, py, p1, p2, p3) ==
    LET x1 == p1[1]
        y1 == p1[2]
        x2 == p2[1]
        y2 == p2[2]
        x3 == p3[1]
        y3 == p3[2]
        denom == (y2 - y3) * (x1 - x3) + (x3 - x2) * (y1 - y3)
        na == (y2 - y3) * (px - x3 * ScreenScale) + (x3 - x2) * (py - y3 * ScreenScale)
        nb == (y3 - y1) * (px - x3 * ScreenScale) + (x1 - x3) * (py - y3 * ScreenScale)
        one == denom * ScreenScale
        nc == one - na - nb
        unit(n) == IF one > 0 THEN 0 <= n /\ n <= one ELSE one <= n /\ n <= 0
    IN  IF denom = 0
        THEN FALSE
        ELSE unit(na) /\ unit(nb) /\ unit(nc)

\* int(cell_size * zoom)
ScaledCellSize(cell_size, zoom) == (cell_size * zoom) \div ZoomScale

\* MouseHitDetector._is_point_in_diamond: the renderer after the call (it
\* memoizes the projection) and the answer
is_point_in_diamond(detector, renderer, mouse_x, mouse_y, grid_x, grid_y, tile, camera_state) ==
    LET iso    == grid_to_iso(renderer, grid_x, grid_y, tile.height, camera_state)
        iso_x  == iso.result[1]
        iso_y  == iso.result[2]
        scaled_cell_size == ScaledCellSize(detector.cell_size, camera_state.zoom)
        top    == <<scaled_cell_size \div 2, 0>>
        left   == <<0, scaled_cell_size \div 4>>
        right  == <<scaled_cell_size, scaled_cell_size \div 4>>
        bottom == <<scaled_cell_size \div 2, scaled_cell_size \div 2>>
        px     == mouse_x - iso_x
        py     == mouse_y - iso_y
    IN  [renderer   |-> iso.renderer,
         in_diamond |-> \/ point_in_triangle(px, py, top, left, bottom)
                        \/ point_in_triangle(px, py, top, right, bottom)
                        \/ point_in_triangle(px, py, left, bottom, right)
                        \/ point_in_triangle(px, py, top, left, right)]

\* MouseHitDetector._get_tile_screen_center, in 1/ScreenScale pixels
get_tile_screen_center(detector, renderer, grid_x, grid_y, tile, camera_state) ==
    LET iso == grid_to_iso(renderer, grid_x, grid_y, tile.height, camera_state)
        scaled_cell_size == ScaledCellSize(detector.cell_size, camera_state.zoom)
    IN  [renderer |-> iso.renderer,
         center   |-> <<iso.result[1] + (scaled_cell_size \div 2) * ScreenScale,
                        iso.result[2] + (scaled_cell_size \div 4) * ScreenScale>>]

\* the keys of an ordered dict, in order
DictKeys(items) == [i \in 1..Len(items) |-> items[i].key]

\* key in dict
HasKey(items, key) == \E i \in 1..Len(items) : items[i].key = key

\* dict[key]
Lookup(items, key) == items[CHOOSE i \in 1..Len(items) : items[i].key = key].value

\* MouseHitDetector._cache_result
cache_result(detector, cache_key, result) ==
    LET kept == IF Len(detector.result_cache) >= detector.cache_max_size
                THEN Tail(detector.result_cache)
                ELSE detector.result_cache
        item == [key |-> cache_key, value |-> result]
    IN  [detector EXCEPT !.result_cache =
             IF HasKey(kept, cache_key)
             THEN [i \in 1..Len(kept) |-> IF kept[i].key = cache_key THEN item ELSE kept[i]]
             ELSE Append(kept, item)]

\* MouseHitDetector.clear_cache
hit_clear_cache(detector) == [detector EXCEPT !.result_cache = << >>]

\* one pass of the first loop of get_tile_at_mouse, for candidate st.i: st
\* holds the manager, the list candidate_tiles and the index
CandidateStep(st, grid, candidates, camera_state) ==
    LET viewport_x == candidates[st.i][1]
        viewport_y == candidates[st.i][2]
        map_x == viewport_x + st.vm.viewport_state.x
        map_y == viewport_y + st.vm.viewport_state.y
        depth(tile) == get_tile_depth(viewport_x, viewport_y, tile.height,
                                      camera_state)
        looked(got) ==
            [vm |-> got.vm,
             candidate_tiles |->
                 IF got.tile = None
                 THEN st.candidate_tiles
                 ELSE Append(st.candidate_tiles,
                             [viewport_x |-> viewport_x, viewport_y |-> viewport_y,
                              tile |-> got.tile, map_x |-> map_x, map_y |-> map_y,
                              depth |-> depth(got.tile)]),
             i |-> st.i + 1]
    IN  The({looked(got) : got \in {get_tile_cached(st.vm, grid, map_x, map_y)}})

\* the first loop of get_tile_at_mouse from candidate st.i on: the manager
\* after the tile lookups and the list candidate_tiles
RECURSIVE CandidateLoop(_, _, _, _)
CandidateLoop(st, grid, candidates, camera_state) ==
    IF st.i > Len(candidates) THEN st
    ELSE The({CandidateLoop(s, grid, candidates, camera_state) :
                  s \in {CandidateStep(st, grid, candidates, camera_state)}})

\* the order of Python's tuples of numbers (of one or two components)
KeyLess(a, b) ==
    \/ a[1] < b[1]
    \/ Len(a) > 1 /\ a[1] = b[1] /\ a[2] < b[2]

\* list.sort(key=...): the stable sort of items by their keys (keys[i] is the
\* key of items[i]); an item's place is the number of items sorted before it
StableSort(items, keys) ==
    LET n == Len(items)
        first(ks, i, j) == KeyLess(ks[i], ks[j])
                              \/ (~KeyLess(ks[j], ks[i]) /\ i < j)
        ranks(ks) == [i \in 1..n |-> Cardinality({j \in 1..n : first(ks, j, i)})]
        sorted(rank) == [p \in 1..n |-> items[CHOOSE i \in 1..n : rank[i] = p - 1]]
    IN  The({sorted(rank) : rank \in {The({ranks(ks) : ks \in {keys}})}})

\* the sort key with the depth negated: the candidates in front first
CandidateKeyFrontFirst(c) == <<-c.depth, -c.tile.height>>

\* the sort key (x[5], -x[2].height) of get_tile_at_mouse
CandidateKey(c) == <<c.depth, -c.tile.height>>

\* one pass of the second loop of get_tile_at_mouse, for candidate st.i: st
\* holds the renderer, best_hit and the index
HitStep(st, detector, mouse_x, mouse_y, camera_state, candidate_tiles) ==
    LET c == candidate_tiles[st.i]
        tested(test) ==
            IF test.in_diamond
            THEN [renderer |-> get_tile_screen_center(detector, test.renderer,
                                   c.viewport_x, c.viewport_y, c.tile,
                                   camera_state).renderer,
                  best_hit |-> HitResult(c.viewport_x, c.viewport_y, c.map_x,
                                         c.map_y, c.depth),
                  i        |-> st.i + 1]
            ELSE [renderer |-> test.renderer, best_hit |-> None, i |-> st.i + 1]
    IN  The({tested(test) :
                 test \in {is_point_in_diamond(detector, st.renderer, mouse_x,
                                               mouse_y, c.viewport_x, c.viewport_y,
                                               c.tile, camera_state)}})

\* the second loop of get_tile_at_mouse from candidate st.i on, left at the
\* first hit (break): the renderer after the projections and best_hit
RECURSIVE HitLoop(_, _, _, _, _, _)
HitLoop(st, detector, mouse_x, mouse_y, camera_state, candidate_tiles) ==
    IF st.i > Len(candidate_tiles) \/ st.best_hit # None THEN st
    ELSE The({HitLoop(s, detector, mouse_x, mouse_y, camera_state,
                      candidate_tiles) :
                  s \in {HitStep(st, detector, mouse_x, mouse_y, camera_state,
                                 candidate_tiles)}})

\* (result.grid_x, result.grid_y) if result else None
HitTile(result) == IF result = None THEN None ELSE <<result.grid_x, result.grid_y>>

\* MouseHitDetector.get_tile_at_mouse, mouse_x and mouse_y in 1/ScreenScale
\* pixels: the detector, the viewport manager and the renderer after the
\* call, and the value returned
get_tile_at_mouse(detector, vm, renderer, grid, mouse_x, mouse_y, camera_state, win_width, win_height) ==
    LET cache_key == <<mouse_x, mouse_y>>
    IN  IF HasKey(detector.result_cache, cache_key)
        THEN [detector |-> detector, vm |-> vm, renderer |-> renderer,
              ret |-> HitTile(Lookup(detector.result_cache, cache_key))]
        ELSE LET returned(looked, found) ==
                     [detector |-> cache_result(detector, cache_key, found.best_hit),
                      vm       |-> looked.vm,
                      renderer |-> found.renderer,
                      ret      |-> HitTile(found.best_hit)]
                 tested(looked) ==
                     The({returned(looked, found) :
                          found \in {HitLoop(
                                        [renderer |-> renderer, best_hit |-> None,
                                         i |-> 1],
                                        detector, mouse_x, mouse_y, camera_state,
                                        sorted) :
                          sorted \in {StableSort(
                                        looked.candidate_tiles,
                                        [i \in 1..Len(looked.candidate_tiles) |->
                                            CandidateKey(looked.candidate_tiles[i])])}}})
             IN  The({tested(looked) :
                      looked \in {CandidateLoop(
                                     [vm |-> vm, candidate_tiles |-> << >>, i |-> 1],
                                     grid, candidates, camera_state) :
                      candidates \in {get_candidate_tiles(
                                         detector, vm, mouse_x, mouse_y,
                                         camera_state, win_width, win_height)}}})

(***************************************************************************)
(* App                                                                     *)
(***************************************************************************)
ROTATION_STEP == 15

INITIAL_VIEWPORT == 120

\* 3.0 and 0.3, in twentieths
ZOOM_MAX == 60

ZOOM_MIN == 6

\* zoom 1.0, in twentieths
ZOOM_ONE == 20

\* the CameraState App.__init__ builds, also kept as initial_camera_state
InitialCameraState ==
    CameraState(0, ZOOM_ONE, 0, 0, WIN_WIDTH \div 2, WIN_HEIGHT \div 2)

\* MapGrid(256)
NewMapGrid == [map_size |-> MAP_SIZE, tiles |-> create_empty_map]

\* The whole program state, as the operations of App.update thread it.
World(a, vm, renderer, detector, grid) ==
    [app |-> a, viewport_manager |-> vm, iso_renderer |-> renderer,
     mouse_hit_detector |-> detector, map_grid |-> grid]

\* App.update_viewport_tiles
update_viewport_tiles(w) ==
    The({[w EXCEPT !.viewport_manager = vm,
                   !.app.current_tiles = get_current_tiles(vm)] :
             vm \in {set_viewport_position(w.viewport_manager, w.map_grid,
                                           w.app.viewport_x, w.app.viewport_y).vm}})

\* App.current_angle
current_angle(a) == a.rotation_index * a.rotation_step

\* App.update_camera_rotation
update_camera_rotation(a) == [a EXCEPT !.camera_state.rotation = current_angle(a)]

\* App.__init__ (the message fields, shown on screen only, are left out)
NewWorld ==
    LET grid == NewMapGrid
        a    == [camera_state    |-> InitialCameraState,
                 viewport_x      |-> INITIAL_VIEWPORT,
                 viewport_y      |-> INITIAL_VIEWPORT,
                 viewport_size   |-> VIEWPORT_SIZE,
                 rotation_step   |-> ROTATION_STEP,
                 rotation_index  |-> 0,
                 max_rotations   |-> 360 \div ROTATION_STEP,
                 mouse_x         |-> 0,
                 mouse_y         |-> 0,
                 hovered_tile    |-> None,
                 selected_tile   |-> None,
                 current_tiles   |-> None]
        built(vm) == World(a, vm, NewIsometricRenderer(CELL_SIZE, HEIGHT_UNIT),
                           NewMouseHitDetector(CELL_SIZE, HEIGHT_UNIT), grid)
    IN  The({update_viewport_tiles(w) :
                 w \in {built(set_viewport_position(vm0, grid, INITIAL_VIEWPORT,
                                                    INITIAL_VIEWPORT).vm) :
                 vm0 \in {NewViewportManager(grid, VIEWPORT_SIZE, CACHE_SIZE)}}})

\* One frame's input to App.update: the keys pyxel.btnp / pyxel.btn report,
\* pyxel.mouse_x, pyxel.mouse_y, pyxel.mouse_wheel, the tiles load_from_json
\* reads (None: the load fails) and the tiles generate_random_map draws.
Input(keys, mouse_x, mouse_y, wheel, loaded, random) ==
    [keys |-> keys, mouse_x |-> mouse_x, mouse_y |-> mouse_y, wheel |-> wheel,
     loaded |-> loaded, random |-> random]

\* update, lines 392-414: W, S, A, D move the window
UpdateMove(w, in) ==
    LET a  == w.app
        y1 == IF "W" \in in.keys /\ a.viewport_y > 0
              THEN a.viewport_y - 1 ELSE a.viewport_y
        y2 == IF "S" \in in.keys /\ y1 < VM_MAP_LIMIT - a.viewport_size
              THEN y1 + 1 ELSE y1
        x1 == IF "A" \in in.keys /\ a.viewport_x > 0
              THEN a.viewport_x - 1 ELSE a.viewport_x
        x2 == IF "D" \in in.keys /\ x1 < VM_MAP_LIMIT - a.viewport_size
              THEN x1 + 1 ELSE x1
        viewport_moved ==
            \/ "W" \in in.keys /\ a.viewport_y > 0
            \/ "S" \in in.keys /\ y1 < VM_MAP_LIMIT - a.viewport_size
            \/ "A" \in in.keys /\ a.viewport_x > 0
            \/ "D" \in in.keys /\ x1 < VM_MAP_LIMIT - a.viewport_size
        moved == [w EXCEPT !.app.viewport_x = x2, !.app.viewport_y = y2]
    IN  IF viewport_moved
        THEN The({update_viewport_tiles(m) : m \in {moved}})
        ELSE moved

\* update, lines 416-422, with the rotation index left unwrapped
UpdateRotateUnwrapped(w, in) ==
    LET a  == w.app
        a1 == IF "Q" \in in.keys
              THEN update_camera_rotation([a EXCEPT !.rotation_index = @ - 1])
              ELSE a
        a2 == IF "E" \in in.keys
              THEN update_camera_rotation([a1 EXCEPT !.rotation_index = @ + 1])
              ELSE a1
    IN  [w EXCEPT !.app = a2]

\* update, lines 416-422: Q and E rotate
UpdateRotate(w, in) ==
    LET a  == w.app
        a1 == IF "Q" \in in.keys
              THEN update_camera_rotation(
                       [a EXCEPT !.rotation_index = (@ - 1) % a.max_rotations])
              ELSE a
        a2 == IF "E" \in in.keys
              THEN update_camera_rotation(
                       [a1 EXCEPT !.rotation_index = (@ + 1) % a.max_rotations])
              ELSE a1
    IN  [w EXCEPT !.app = a2]

\* zoom += step, then the clamp of the branch taken
ZoomIn(zoom, step) == IF zoom + step > ZOOM_MAX THEN ZOOM_MAX ELSE zoom + step

\* zooming out without the lower limit
ZoomOutUnclamped(zoom, step) == zoom - step

ZoomOut(zoom, step) == IF zoom - step < ZOOM_MIN THEN ZOOM_MIN ELSE zoom - step

\* update, lines 424-443: Z, X and the wheel zoom
UpdateZoom(w, in) ==
    LET z0 == w.app.camera_state.zoom
        z1 == IF "Z" \in in.keys THEN ZoomIn(z0, 1) ELSE z0
        z2 == IF "X" \in in.keys THEN ZoomOut(z1, 1) ELSE z1
        z3 == IF in.wheel > 0 THEN ZoomIn(z2, 2)
              ELSE IF in.wheel < 0 THEN ZoomOut(z2, 2)
              ELSE z2
    IN  [w EXCEPT !.app.camera_state.zoom = z3]

\* the three clear_cache calls of the C, F2 and F3 branches
ClearCaches(w) ==
    [w EXCEPT !.iso_renderer = iso_clear_cache(@),
              !.viewport_manager = vm_clear_cache(@),
              !.mouse_hit_detector = hit_clear_cache(@)]

\* update, lines 445-469: C resets the view
UpdateReset(w, in) ==
    IF "C" \in in.keys
    THEN LET a == update_camera_rotation(
                      [w.app EXCEPT !.viewport_x = INITIAL_VIEWPORT,
                                    !.viewport_y = INITIAL_VIEWPORT,
                                    !.camera_state = InitialCameraState,
                                    !.rotation_index = 0])
         IN  The({update_viewport_tiles(c) : c \in {ClearCaches([w EXCEPT !.app = a])}})
    ELSE w

\* update, lines 471-479: the arrow keys pan
UpdatePan(w, in) ==
    LET dx == (IF "LEFT" \in in.keys THEN 2 ELSE 0)
                  - (IF "RIGHT" \in in.keys THEN 2 ELSE 0)
        dy == (IF "UP" \in in.keys THEN 2 ELSE 0)
                  - (IF "DOWN" \in in.keys THEN 2 ELSE 0)
    IN  [w EXCEPT !.app.camera_state.offset_x = @ + dx,
                  !.app.camera_state.offset_y = @ + dy]

\* update, lines 481-484: a click selects the hovered tile
UpdateSelect(w, in) ==
    IF "MOUSE_BUTTON_LEFT" \in in.keys /\ w.app.hovered_tile # None
    THEN [w EXCEPT !.app.selected_tile = w.app.hovered_tile]
    ELSE w

\* update, lines 492-506: F2 loads the map (load_from_json replaces
\* map_grid.tiles when it succeeds)
UpdateLoad(w, in) ==
    IF "F2" \in in.keys /\ in.loaded # None
    THEN The({update_viewport_tiles(c) : c \in {ClearCaches([w EXCEPT !.map_grid.tiles = in.loaded])}})
    ELSE w

\* update, lines 508-519: F3 generates a random map
UpdateRandom(w, in) ==
    IF "F3" \in in.keys
    THEN The({update_viewport_tiles(c) : c \in {ClearCaches([w EXCEPT !.map_grid.tiles = in.random])}})
    ELSE w

\* App.update (Escape, which quits, and F1, which writes a file, are left out)
update(w, in) ==
    The({UpdateRandom(w7, in) :
         w7 \in {UpdateLoad(w6, in) :
         w6 \in {UpdateSelect(w5, in) :
         w5 \in {UpdatePan(w4, in) :
         w4 \in {UpdateReset(w3, in) :
         w3 \in {UpdateZoom(w2, in) :
         w2 \in {UpdateRotate(w1, in) :
         w1 \in {UpdateMove(w0, in) :
         w0 \in {[w EXCEPT !.app.mouse_x = in.mouse_x,
                           !.app.mouse_y = in.mouse_y]}}}}}}}}})

\* App.get_tile_depth
app_get_tile_depth(a, grid_x, grid_y) ==
    get_tile_depth(grid_x, grid_y, a.current_tiles[grid_y + 1][grid_x + 1].height,
                   a.camera_state)

\* the list tiles_with_depth of App.draw before the sort: <<depth, x, y>> of
\* every window cell, rows outermost
tiles_with_depth(a) ==
    [i \in 1..(a.viewport_size * a.viewport_size) |->
        LET x == (i - 1) % a.viewport_size
            y == (i - 1) \div a.viewport_size
        IN  <<app_get_tile_depth(a, x, y), x, y>>]

\* the draw loop without the sort: the tiles painted in the order of the list
PaintOrderUnsorted(a) == tiles_with_depth(a)

\* tiles_with_depth.sort(key=lambda item: item[0]): the order the tiles are
\* painted in
paint_order(a) ==
    The({StableSort(items, [i \in 1..Len(items) |-> <<items[i][1]>>]) :
             items \in {tiles_with_depth(a)}})

\* the coordinate memo after draw_diamond_tile has projected every tile of
\* current_tiles (draw_compass_labels projects four of them again)
DrawProjections(renderer, a) ==
    LET cells == (0..(a.viewport_size - 1)) \X (0..(a.viewport_size - 1))
        keys  == {CoordKey(c[1], c[2], a.current_tiles[c[2] + 1][c[1] + 1].height,
                           a.camera_state) : c \in cells}
    IN  [renderer EXCEPT !.coord_cache =
            [k \in DOMAIN @ \cup keys |->
                IF k \in DOMAIN @ THEN @[k]
                ELSE grid_to_iso_compute(renderer, k[1], k[2], k[3], a.camera_state)]]

\* App.draw: hovered_tile from get_tile_at_mouse, then every tile drawn
draw(w) ==
    LET drawn(hit) ==
            World([w.app EXCEPT !.hovered_tile = hit.ret], hit.vm,
                  DrawProjections(hit.renderer, w.app), hit.detector, w.map_grid)
    IN  The({drawn(hit) :
                 hit \in {get_tile_at_mouse(
                             w.mouse_hit_detector, w.viewport_manager,
                             w.iso_renderer, w.map_grid,
                             w.app.mouse_x * ScreenScale, w.app.mouse_y * ScreenScale,
                             w.app.camera_state, WIN_WIDTH, WIN_HEIGHT)}})

(***************************************************************************)
(* The run loop: pyxel.run(self.update, self.draw)                         *)
(***************************************************************************)
TheWorld == World(app, viewport_manager, iso_renderer, mouse_hit_detector, map_grid)

Becomes(w) ==
    /\ app' = w.app
    /\ viewport_manager' = w.viewport_manager
    /\ iso_renderer' = w.iso_renderer
    /\ mouse_hit_detector' = w.mouse_hit_detector
    /\ map_grid' = w.map_grid

Init ==
    /\ \E w \in {NewWorld} :
           /\ app = w.app
           /\ viewport_manager = w.viewport_manager
           /\ iso_renderer = w.iso_renderer
           /\ mouse_hit_detector = w.mouse_hit_detector
           /\ map_grid = w.map_grid
    /\ frame_count = 0
    /\ ret = None

\* frames explored
MaxFrames == 2

\* a tall spike, as a map file may hold
TallSpike == 12

\* pointer positions: the roof centres of tiles (12, 8) and (8, 8) of the
\* initial view, a point off the grid, a point where the roof of a tile of
\* height 5 overlaps the roof of the flat tile behind it, and the roof centre
\* of a tall tile on the window's corner
MousePositions == {<<168, 209>>, <<136, 193>>, <<10, 10>>, <<160, 195>>, <<136, 96>>}

\* maps generate_random_map may draw (heights 1..5)
RandomMaps == {MapData(1, 132, 128, 5), MapData(2, 128, 128, 4)}

\* maps load_from_json may read
LoadedMaps == {MapData(1, 121, 120, TallSpike)}

\* the frames' inputs explored
Inputs ==
    {Input(k, 168, 209, 0, None, MapData(1, 0, 0, 1)) :
         k \in {{}, {"Q"}, {"E"}, {"D"}, {"W", "A"}, {"Z"}, {"X", "LEFT"},
                {"UP", "RIGHT"}, {"DOWN"}, {"S"}, {"C"}, {"F2"},
                {"MOUSE_BUTTON_LEFT"}}}
    \cup {Input({}, 136, 193, 1, None, MapData(1, 0, 0, 1)),
          Input({}, 10, 10, -1, None, MapData(1, 0, 0, 1)),
          Input({"D"}, 160, 195, 0, None, MapData(1, 0, 0, 1)),
          Input({"D"}, 136, 96, 0, None, MapData(1, 0, 0, 1))}
    \cup {Input({"F3"}, 168, 209, 0, None, r) : r \in RandomMaps}
    \cup {Input({"F2"}, 168, 209, 0, l, MapData(1, 0, 0, 1)) : l \in LoadedMaps}

\* one call of App.update
Update(in) ==
    /\ frame_count < MaxFrames
    /\ frame_count' = frame_count + 1
    /\ \E w \in {update(TheWorld, in)} : Becomes(w)
    /\ ret' = None

\* one call of App.draw
Draw ==
    /\ \E w \in {draw(TheWorld)} : Becomes(w)
    /\ UNCHANGED <<frame_count, ret>>

Next ==
    \/ \E in \in Inputs : Update(in)
    \/ Draw

Spec == Init /\ [][Next]_vars

(***************************************************************************)
(* The viewport manager alone, driven through its interface over a         *)
(* backing grid whose tiles a map load or regeneration may replace.        *)
(* frame_count counts the calls made; ret holds the last call, its         *)
(* arguments and the value it returned.                                     *)
(***************************************************************************)
\* the window side and the tile cache capacity of the manager explored
VMViewportSize == 2

VMCacheSize == 3

\* calls explored
MaxCalls == 3

\* arguments of set_viewport_position and move_viewport: inside the map, on
\* its edges and beyond them
SetArgs == {<<-1, -1>>, <<0, 300>>, <<254, 255>>, <<127, 127>>, <<120, 120>>}

MoveArgs == {<<-300, 0>>, <<1, 0>>, <<0, -1>>, <<300, 300>>}

\* tiles a load or a regeneration may put in the backing grid
VMMaps == {MapData(1, 0, 0, 1), MapData(2, 128, 128, 4)}

Called(op, args, value) == [op |-> op, args |-> args, value |-> value]

InitVM ==
    /\ map_grid = NewMapGrid
    /\ viewport_manager = NewViewportManager(NewMapGrid, VMViewportSize, VMCacheSize)
    /\ app = None
    /\ iso_renderer = None
    /\ mouse_hit_detector = None
    /\ frame_count = 0
    /\ ret = Called("__init__", <<VMViewportSize, VMCacheSize>>, None)

CallVM ==
    /\ frame_count < MaxCalls
    /\ frame_count' = frame_count + 1
    /\ UNCHANGED <<app, iso_renderer, mouse_hit_detector>>

SetViewportPosition(x, y) ==
    /\ CallVM
    /\ \E r \in {set_viewport_position(viewport_manager, map_grid, x, y)} :
           /\ viewport_manager' = r.vm
           /\ ret' = Called("set_viewport_position", <<x, y>>, r.ret)
    /\ UNCHANGED map_grid

MoveViewport(dx, dy) ==
    /\ CallVM
    /\ \E r \in {move_viewport(viewport_manager, map_grid, dx, dy)} :
           /\ viewport_manager' = r.vm
           /\ ret' = Called("move_viewport", <<dx, dy>>, r.ret)
    /\ UNCHANGED map_grid

ResetToCenter ==
    /\ CallVM
    /\ viewport_manager' = reset_to_center(viewport_manager, map_grid)
    /\ ret' = Called("reset_to_center", << >>, None)
    /\ UNCHANGED map_grid

ClearCache ==
    /\ CallVM
    /\ viewport_manager' = vm_clear_cache(viewport_manager)
    /\ ret' = Called("clear_cache", << >>, None)
    /\ UNCHANGED map_grid

GetCurrentTiles ==
    /\ CallVM
    /\ ret' = Called("get_current_tiles", << >>, get_current_tiles(viewport_manager))
    /\ UNCHANGED <<viewport_manager, map_grid>>

MapToViewportCoords(map_x, map_y) ==
    /\ CallVM
    /\ ret' = Called("map_to_viewport_coords", <<map_x, map_y>>,
                     map_to_viewport_coords(viewport_manager, map_x, map_y))
    /\ UNCHANGED <<viewport_manager, map_grid>>

ViewportToMapCoords(viewport_x, viewport_y) ==
    /\ CallVM
    /\ ret' = Called("viewport_to_map_coords", <<viewport_x, viewport_y>>,
                     viewport_to_map_coords(viewport_manager, viewport_x, viewport_y))
    /\ UNCHANGED <<viewport_manager, map_grid>>

\* map_grid.tiles replaced behind the manager (load_from_json,
\* generate_random_map)
ReplaceTiles(tiles) ==
    /\ CallVM
    /\ map_grid' = [map_grid EXCEPT !.tiles = tiles]
    /\ ret' = Called("tiles", << >>, None)
    /\ UNCHANGED viewport_manager

NextVM ==
    \/ \E a \in SetArgs : SetViewportPosition(a[1], a[2])
    \/ \E a \in MoveArgs : MoveViewport(a[1], a[2])
    \/ ResetToCenter
    \/ ClearCache
    \/ GetCurrentTiles
    \/ \E a \in {<<120, 120>>, <<121, 121>>, <<122, 120>>, <<120, 119>>, <<0, 1>>,
                  <<255, 254>>, <<-1, 0>>, <<128, 127>>} :
           MapToViewportCoords(a[1], a[2])
    \/ \E lx \in -1..VMViewportSize, ly \in 0..(VMViewportSize - 1) :
           ViewportToMapCoords(lx, ly)
    \/ \E tiles \in VMMaps : ReplaceTiles(tiles)

SpecVM == InitVM /\ [][NextVM]_vars

\* the window's tiles read from the backing grid as it is now, as
\* get_viewport_tiles_cached builds them on a miss
BackingSlice(grid, st) ==
    [y \in 1..st.size |->
        [x \in 1..st.size |->
            LET tile == get_tile(grid, st.x + x - 1, st.y + y - 1)
            IN  IF tile = None THEN DummyTile(st.x + x - 1, st.y + y - 1) ELSE tile]]

\* C1: after construction and after every set_viewport_position,
\* move_viewport and reset_to_center call, whatever the arguments, the window
\* lies inside the map: 0 <= x, y <= 256 - size; every such call returns (a
\* move or a set answers whether the window moved).
C1_WindowClamped ==
    /\ viewport_manager.viewport_state.x \in
           0..(VM_MAP_LIMIT - viewport_manager.viewport_state.size)
    /\ viewport_manager.viewport_state.y \in
           0..(VM_MAP_LIMIT - viewport_manager.viewport_state.size)
    /\ ret.op \in {"set_viewport_position", "move_viewport"} => ret.value \in BOOLEAN

\* a move whose target lies beyond the map on both axes has been made, and
\* the window stands on the map's far corner
C1_ClampedMoveDone ==
    /\ ret.op = "move_viewport"
    /\ ret.args = <<300, 300>>
    /\ ret.value = TRUE
    /\ viewport_manager.viewport_state.x = VM_MAP_LIMIT - VMViewportSize
    /\ viewport_manager.viewport_state.y = VM_MAP_LIMIT - VMViewportSize

\* C2: after clear_cache(), the next current slice obtained (by
\* get_current_tiles, or by set_viewport_position whatever the position) holds
\* the tiles of the backing grid as it is now, for every window cell.
C2_ClearRecomputes ==
    [][(ret.op = "clear_cache"
            /\ ret'.op \in {"get_current_tiles", "set_viewport_position"})
        => get_current_tiles(viewport_manager')
               = BackingSlice(map_grid', viewport_manager'.viewport_state)]_vars

\* the tiles were replaced, the cache was cleared, and the slice was asked for
C2_SliceAskedAfterClear ==
    /\ ret.op = "get_current_tiles"
    /\ frame_count = MaxCalls
    /\ viewport_manager.tile_cache = << >>
    /\ map_grid.tiles # create_empty_map

\* the position a target is clamped to: each axis brought into 0..256 - size
ClampedTarget(x, y, size) ==
    <<max(0, min(x, VM_MAP_LIMIT - size)), max(0, min(y, VM_MAP_LIMIT - size))>>

\* a call that asked for target answered `moved` as it should: True exactly
\* when the clamped target is not the position before, which is then the
\* position after; False leaves the position and the current slice as they were
AnsweredWhetherMoved(target, moved, before, after) ==
    LET clamped == ClampedTarget(target[1], target[2], before.viewport_state.size)
    IN  /\ moved = (clamped # get_viewport_position(before))
        /\ get_viewport_position(after) = clamped
        /\ ~moved => /\ after.viewport_state = before.viewport_state
                     /\ get_current_tiles(after) = get_current_tiles(before)

\* C14: set_viewport_position and move_viewport return True exactly when the
\* clamped target differs from the position before the call; when they return
\* False the window and the current slice are unchanged.
C14_ReturnsWhetherMoved ==
    [][/\ ret'.op = "set_viewport_position"
          => AnsweredWhetherMoved(ret'.args, ret'.value, viewport_manager,
                                  viewport_manager')
       /\ ret'.op = "move_viewport"
          => AnsweredWhetherMoved(
                 <<viewport_manager.viewport_state.x + ret'.args[1],
                   viewport_manager.viewport_state.y + ret'.args[2]>>,
                 ret'.value, viewport_manager, viewport_manager')]_vars

\* the window, on the map's left edge, was moved further left and stayed
C14_MoveAgainstEdge ==
    /\ ret.op = "move_viewport"
    /\ ret.args = <<-300, 0>>
    /\ ret.value = FALSE
    /\ viewport_manager.viewport_state.x = 0

\* the backing coordinate lies in the window: x <= bx < x + size, y likewise
InsideWindow(st, bx, by) ==
    /\ st.x <= bx /\ bx < st.x + st.size
    /\ st.y <= by /\ by < st.y + st.size

\* C15: window coordinates inside 0..size-1 go to backing coordinates and
\* back unchanged; backing coordinates inside the window go to window
\* coordinates and back unchanged; map_to_viewport_coords is None outside
\* the window.
C15_CoordinateRoundTrip ==
    LET st == viewport_manager.viewport_state
    IN  /\ ( /\ ret.op = "viewport_to_map_coords"
             /\ ret.args[1] \in 0..(st.size - 1)
             /\ ret.args[2] \in 0..(st.size - 1) )
           => /\ ret.value = <<st.x + ret.args[1], st.y + ret.args[2]>>
              /\ map_to_viewport_coords(viewport_manager, ret.value[1],
                                        ret.value[2]) = ret.args
        /\ ret.op = "map_to_viewport_coords"
           => IF InsideWindow(st, ret.args[1], ret.args[2])
              THEN /\ ret.value # None
                   /\ viewport_to_map_coords(viewport_manager, ret.value[1],
                                             ret.value[2]) = ret.args
              ELSE ret.value = None

\* the last cell of the top row of a window in the map's far corner was
\* converted to its backing coordinate
C15_WindowCellConverted ==
    /\ ret.op = "viewport_to_map_coords"
    /\ ret.args = <<VMViewportSize - 1, 0>>
    /\ get_viewport_position(viewport_manager)
           = <<VM_MAP_LIMIT - VMViewportSize, VM_MAP_LIMIT - VMViewportSize>>
    /\ ret.value = <<VM_MAP_LIMIT - 1, VM_MAP_LIMIT - VMViewportSize>>


(***************************************************************************)
(* The manager's slice accessors, read by a caller that keeps the slice it *)
(* got (as App keeps current_tiles): app holds the slice last returned by  *)
(* each accessor, or None once the window moved, the tiles were replaced   *)
(* or the caches were cleared since.  Other windows are looked up in       *)
(* between by preload_surrounding_area.  ret holds the last call and, for  *)
(* an accessor, the slice the caller held before it (held) and whether the *)
(* slice cache had the window (cached).                                    *)
(***************************************************************************)
\* calls explored
MaxSliceCalls == 4

\* radii of preload_surrounding_area: 9 and 49 windows
PreloadRadii == {1, 3}

\* positions the window is set to
SliceArgs == {<<120, 120>>, <<122, 120>>, <<255, 0>>}

InitSlice ==
    /\ map_grid = NewMapGrid
    /\ viewport_manager = NewViewportManager(NewMapGrid, VMViewportSize, VMCacheSize)
    /\ app = [viewport |-> None, current_tiles |-> None]
    /\ iso_renderer = None
    /\ mouse_hit_detector = None
    /\ frame_count = 0
    /\ ret = Called("__init__", <<VMViewportSize, VMCacheSize>>, None)

CallSlice ==
    /\ frame_count < MaxSliceCalls
    /\ frame_count' = frame_count + 1
    /\ UNCHANGED <<iso_renderer, mouse_hit_detector>>

\* get_viewport_tiles_cached for the window's position
GetViewportTilesCached ==
    /\ CallSlice
    /\ \E key \in {<<viewport_manager.viewport_state.x,
                     viewport_manager.viewport_state.y,
                     viewport_manager.viewport_state.size>>} :
       \E r \in {get_viewport_tiles_cached(viewport_manager, map_grid,
                                           key[1], key[2], key[3])} :
           /\ viewport_manager' = r.vm
           /\ ret' = [op     |-> "get_viewport_tiles_cached",
                      args   |-> key,
                      value  |-> r.tiles,
                      held   |-> app.viewport,
                      cached |-> key \in DOMAIN viewport_manager.viewport_cache]
           /\ app' = [app EXCEPT !.viewport = r.tiles]
    /\ UNCHANGED map_grid

ReadCurrentTiles ==
    /\ CallSlice
    /\ ret' = [op     |-> "get_current_tiles",
               args   |-> << >>,
               value  |-> get_current_tiles(viewport_manager),
               held   |-> app.current_tiles,
               cached |-> TRUE]
    /\ app' = [app EXCEPT !.current_tiles = get_current_tiles(viewport_manager)]
    /\ UNCHANGED <<viewport_manager, map_grid>>

PreloadSurroundingArea(radius) ==
    /\ CallSlice
    /\ \E vm \in {preload_surrounding_area(viewport_manager, map_grid, radius)} :
           viewport_manager' = vm
    /\ ret' = Called("preload_surrounding_area", <<radius>>, None)
    /\ UNCHANGED <<map_grid, app>>

\* the window set to a position: the caller's slices are dropped if it moved
SetSlicePosition(x, y) ==
    /\ CallSlice
    /\ \E r \in {set_viewport_position(viewport_manager, map_grid, x, y)} :
           /\ viewport_manager' = r.vm
           /\ ret' = Called("set_viewport_position", <<x, y>>, r.ret)
           /\ app' = IF r.ret THEN [viewport |-> None, current_tiles |-> None]
                     ELSE app
    /\ UNCHANGED map_grid

\* map_grid.tiles replaced behind the manager: the caller's slices are dropped
ReplaceSliceTiles(tiles) ==
    /\ CallSlice
    /\ map_grid' = [map_grid EXCEPT !.tiles = tiles]
    /\ ret' = Called("tiles", << >>, None)
    /\ app' = [viewport |-> None, current_tiles |-> None]
    /\ UNCHANGED viewport_manager

\* clear_cache: the caller's slices are dropped
ClearSliceCache ==
    /\ CallSlice
    /\ viewport_manager' = vm_clear_cache(viewport_manager)
    /\ ret' = Called("clear_cache", << >>, None)
    /\ app' = [viewport |-> None, current_tiles |-> None]
    /\ UNCHANGED map_grid

NextSlice ==
    \/ GetViewportTilesCached
    \/ ReadCurrentTiles
    \/ \E radius \in PreloadRadii : PreloadSurroundingArea(radius)
    \/ \E a \in SliceArgs : SetSlicePosition(a[1], a[2])
    \/ \E tiles \in VMMaps : ReplaceSliceTiles(tiles)
    \/ ClearSliceCache

SpecSlice == InitSlice /\ [][NextSlice]_vars

MaxProjSteps == 3

\* the cameras the calls start from: every rotation step, two zooms (1.0 and
\* 1.65) and a pan
ProjCameras ==
    {CameraState(r * ROTATION_STEP, z, o[1], o[2], WIN_WIDTH \div 2, WIN_HEIGHT \div 2) :
         r \in 0..(360 \div ROTATION_STEP - 1), z \in {ZOOM_ONE, 33},
         o \in {<<-14, 6>>}}

\* <<grid_x, grid_y, height>> of the calls
ProjArgs == {<<8, 8, 5>>, <<0, 0, 1>>, <<12, 5, 3>>, <<5, 11, 0>>}

\* the keys that mutate the camera record
ProjKeys == {{"Q", "Z"}, {"LEFT", "DOWN"}, {"E", "X", "RIGHT"}}

InitProj ==
    /\ iso_renderer = NewIsometricRenderer(CELL_SIZE, HEIGHT_UNIT)
    /\ \E c \in ProjCameras :
           app = [NewWorld.app EXCEPT !.camera_state = c,
                                      !.rotation_index = c.rotation \div ROTATION_STEP]
    /\ map_grid = None
    /\ viewport_manager = None
    /\ mouse_hit_detector = None
    /\ frame_count = 0
    /\ ret = Called("__init__", <<CELL_SIZE, HEIGHT_UNIT>>, None)

StepProj ==
    /\ frame_count < MaxProjSteps
    /\ frame_count' = frame_count + 1
    /\ UNCHANGED <<map_grid, viewport_manager, mouse_hit_detector>>

GridToIso(grid_x, grid_y, height) ==
    /\ StepProj
    /\ \E r \in {grid_to_iso(iso_renderer, grid_x, grid_y, height, app.camera_state)} :
           /\ iso_renderer' = r.renderer
           /\ ret' = [op     |-> "grid_to_iso",
                      args   |-> <<grid_x, grid_y, height, app.camera_state>>,
                      value  |-> r.result,
                      cached |-> CoordKey(grid_x, grid_y, height, app.camera_state)
                                     \in DOMAIN iso_renderer.coord_cache]
    /\ UNCHANGED app

\* the caller changes its camera record as App.update does on these keys
MutateCamera(keys) ==
    /\ StepProj
    /\ \E in \in {Input(keys, 0, 0, 0, None, None)} :
           app' = UpdatePan(UpdateZoom(UpdateRotate(
                                World(app, None, None, None, None), in), in), in).app
    /\ UNCHANGED <<iso_renderer, ret>>

IsoClearCache ==
    /\ StepProj
    /\ iso_renderer' = iso_clear_cache(iso_renderer)
    /\ UNCHANGED <<app, ret>>

NextProj ==
    \/ \E a \in ProjArgs : GridToIso(a[1], a[2], a[3])
    \/ \E keys \in ProjKeys : MutateCamera(keys)
    \/ IsoClearCache

SpecProj == InitProj /\ [][NextProj]_vars

\* C8: whatever the rotation, zoom, pan and height, the viewport's logical
\* centre (viewport_size / 2 on both axes) is projected to the screen point
\* it has at rotation 0.
C8_CentreFixed ==
    (ret.op = "grid_to_iso" /\ ret.args[1] = VIEWPORT_SIZE \div 2
                            /\ ret.args[2] = VIEWPORT_SIZE \div 2)
    => ret.value = grid_to_iso_compute(iso_renderer, ret.args[1], ret.args[2],
                                       ret.args[3],
                                       [ret.args[4] EXCEPT !.rotation = 0])

\* the centre has been projected at a rotation other than 0, zoomed and panned
C8_CentreProjectedRotated ==
    /\ ret.op = "grid_to_iso"
    /\ ret.args[1] = VIEWPORT_SIZE \div 2 /\ ret.args[2] = VIEWPORT_SIZE \div 2
    /\ ret.args[3] = 5
    /\ ret.args[4].rotation = 45
    /\ ret.args[4].zoom # ZOOM_ONE
    /\ ret.args[4].offset_x # 0

\* the projection as the formula states it, in 1/ScreenScale pixels, from the
\* rotated vector <<rx, ry>> in 1/TrigScale cells
ProjectionFormula(rx, ry, height, camera) ==
    <<camera.center_x * ScreenScale
          + ((rx - ry) * (CELL_SIZE \div 2)) * camera.zoom
          + camera.offset_x * ScreenScale,
      camera.center_y * ScreenScale
          + ((rx + ry) * (CELL_SIZE \div 4) - height * HEIGHT_UNIT * TrigScale)
                * camera.zoom
          + camera.offset_y * ScreenScale>>

\* C9 as stated: the projection is the formula applied to (rx, ry), the
\* vector (gridX, gridY) made relative to the viewport's logical centre and
\* then rotated by camera.rotation.
C9_ProjectionFormula ==
    ret.op = "grid_to_iso"
    => LET rel_x == ret.args[1] - VIEWPORT_SIZE \div 2
           rel_y == ret.args[2] - VIEWPORT_SIZE \div 2
           rot   == ret.args[4].rotation
       IN  ret.value = ProjectionFormula(rel_x * Cos(rot) - rel_y * Sin(rot),
                                         rel_x * Sin(rot) + rel_y * Cos(rot),
                                         ret.args[3], ret.args[4])

\* C9 amended: the projection is the formula applied to (rx, ry), the point
\* (gridX, gridY) rotated by camera.rotation about the viewport's logical
\* centre: made relative to the centre, rotated, and translated back by the
\* centre.
C9_ProjectionAboutCentre ==
    ret.op = "grid_to_iso"
    => LET centre == VIEWPORT_SIZE \div 2
           rel_x  == ret.args[1] - centre
           rel_y  == ret.args[2] - centre
           rot    == ret.args[4].rotation
       IN  ret.value = ProjectionFormula(
                           rel_x * Cos(rot) - rel_y * Sin(rot) + centre * TrigScale,
                           rel_x * Sin(rot) + rel_y * Cos(rot) + centre * TrigScale,
                           ret.args[3], ret.args[4])

\* a tile off the centre has been projected, rotated, zoomed and panned
C9_ProjectedRotated ==
    /\ ret.op = "grid_to_iso"
    /\ <<ret.args[1], ret.args[2], ret.args[3]>> = <<12, 5, 3>>
    /\ ret.args[4].rotation = 255
    /\ ret.args[4].zoom = 33
    /\ ret.args[4].offset_y = 6

\* C10: a call of grid_to_iso returns the point its arguments (grid
\* coordinate, height, the camera's field values) determine, whether the memo
\* serves it or it is computed, whatever calls, camera mutations and
\* clear_cache came before.
C10_Deterministic ==
    ret.op = "grid_to_iso"
    => ret.value = grid_to_iso_compute(NewIsometricRenderer(CELL_SIZE, HEIGHT_UNIT),
                                       ret.args[1], ret.args[2], ret.args[3],
                                       ret.args[4])

\* the memo has served a call
C10_ServedFromMemo ==
    /\ ret.op = "grid_to_iso"
    /\ ret.cached
    /\ frame_count = MaxProjSteps

\* C11: at rotation 0 _rotate_coordinates returns the coordinates it is given,
\* which is what its general path gives for cos = 1 and sin = 0, and
\* grid_to_iso is the isometric formula applied to the unrotated coordinates.
C11_RotationIdentity ==
    (ret.op = "grid_to_iso" /\ ret.args[4].rotation = 0)
    => LET centre == <<RENDER_CENTER, RENDER_CENTER>>
           turned == rotate_coordinates(ret.args[1], ret.args[2], 0, centre)
       IN  /\ turned = <<ret.args[1] * TrigScale, ret.args[2] * TrigScale>>
           /\ turned = rotate_general(ret.args[1], ret.args[2], TrigScale, 0, centre)
           /\ ret.value = ProjectionFormula(ret.args[1] * TrigScale,
                                            ret.args[2] * TrigScale,
                                            ret.args[3], ret.args[4])

\* a tile off the centre has been projected at rotation 0, zoomed and panned
C11_ProjectedUnrotated ==
    /\ ret.op = "grid_to_iso"
    /\ <<ret.args[1], ret.args[2], ret.args[3]>> = <<12, 5, 3>>
    /\ ret.args[4].rotation = 0
    /\ ret.args[4].zoom = 33
    /\ ret.args[4].offset_x = -14
    /\ ~ret.cached

(***************************************************************************)
(* The geometry of one tile: the quad draw_diamond_tile builds for it and  *)
(* the diamond and triangle tests of the hit detector, called directly.    *)
(* app holds the caller's arguments (camera, tile, grid cell, pointer);    *)
(* frame_count counts the calls; ret holds the last call, its arguments    *)
(* and the value it returned.                                              *)
(***************************************************************************)
\* calls explored
MaxGeomCalls == 1

\* zooms (in twentieths) from 0.05, where int(cell_size * zoom) is 0, to 3.0
GeomZooms == {1, 2, 3, 4, ZOOM_MIN, ZOOM_ONE, 33, ZOOM_MAX}

GeomCameras ==
    {CameraState(r, z, 0, 0, WIN_WIDTH \div 2, WIN_HEIGHT \div 2) :
         r \in {0, 3 * ROTATION_STEP}, z \in GeomZooms}

\* heights of the tile
GeomHeights == {0, 1, 3, 8}

\* where the pointer is, in pixels from the pixel of the tile's screen point
GeomPointerOffsets ==
    {<<0, 0>>, <<1, 0>>, <<6, 3>>, <<-2, 5>>, <<8, 4>>, <<16, 4>>, <<4, 2>>, <<12, 6>>,
     <<4, 1>>, <<1, 1>>, <<0, 1>>}

\* triangles in whole pixels: proper ones, and zero-area ones (a point, three
\* points on a horizontal, a vertical and a slanted line)
GeomTriangles ==
    {<<<<8, 0>>, <<0, 4>>, <<8, 8>>>>, <<<<0, 4>>, <<8, 8>>, <<16, 4>>>>,
     <<<<0, 0>>, <<0, 0>>, <<0, 0>>>>, <<<<0, 0>>, <<0, 0>>, <<1, 0>>>>,
     <<<<0, 0>>, <<0, 3>>, <<0, 1>>>>, <<<<0, 0>>, <<2, 1>>, <<4, 2>>>>}

\* points tested against the triangles, in half pixels: on the zero-area
\* triangles' points and lines, inside the proper ones, and off them all
GeomPoints == {<<0, 0>>, <<1, 0>>, <<0, 4>>, <<4, 2>>, <<16, 8>>, <<-3, 7>>}

\* the pointer's pixel for a tile projected to iso, off pixels away
GeomPointer(iso, off) ==
    <<(iso[1] \div ScreenScale + off[1]) * ScreenScale,
      (iso[2] \div ScreenScale + off[2]) * ScreenScale>>

InitGeom ==
    /\ iso_renderer = NewIsometricRenderer(CELL_SIZE, HEIGHT_UNIT)
    /\ mouse_hit_detector = NewMouseHitDetector(CELL_SIZE, HEIGHT_UNIT)
    /\ \E c \in GeomCameras, h \in GeomHeights, off \in GeomPointerOffsets :
           \E iso \in {grid_to_iso_compute(iso_renderer, RENDER_CENTER, RENDER_CENTER,
                                           h, c)} :
               app = [camera_state |-> c,
                      grid_x       |-> RENDER_CENTER,
                      grid_y       |-> RENDER_CENTER,
                      tile         |-> Tile(INITIAL_VIEWPORT + RENDER_CENTER,
                                            INITIAL_VIEWPORT + RENDER_CENTER, h, 1),
                      mouse_x      |-> GeomPointer(iso, off)[1],
                      mouse_y      |-> GeomPointer(iso, off)[2]]
    /\ map_grid = None
    /\ viewport_manager = None
    /\ frame_count = 0
    /\ ret = Called("__init__", <<CELL_SIZE, HEIGHT_UNIT>>, None)

StepGeom ==
    /\ frame_count < MaxGeomCalls
    /\ frame_count' = frame_count + 1
    /\ UNCHANGED <<map_grid, viewport_manager, mouse_hit_detector, app>>

\* the quad of the tile, as draw_diamond_tile asks for it
CalculateDiamondVertices ==
    /\ StepGeom
    /\ \E iso \in {grid_to_iso(iso_renderer, app.grid_x, app.grid_y,
                               app.tile.height, app.camera_state)} :
       \E scaled_cell_size \in {ScaledCellSize(CELL_SIZE, app.camera_state.zoom)} :
           /\ iso_renderer' = iso.renderer
           /\ ret' = Called("calculate_diamond_vertices",
                            <<iso.result[1], iso.result[2], scaled_cell_size,
                              app.tile.height, app.camera_state.zoom>>,
                            calculate_diamond_vertices(
                                iso_renderer, iso.result[1], iso.result[2],
                                scaled_cell_size, app.tile.height,
                                app.camera_state.zoom))

IsPointInDiamond ==
    /\ StepGeom
    /\ \E r \in {is_point_in_diamond(mouse_hit_detector, iso_renderer,
                                     app.mouse_x, app.mouse_y, app.grid_x,
                                     app.grid_y, app.tile, app.camera_state)} :
           /\ iso_renderer' = r.renderer
           /\ ret' = Called("_is_point_in_diamond",
                            <<app.mouse_x, app.mouse_y, app.grid_x, app.grid_y,
                              app.tile, app.camera_state>>,
                            r.in_diamond)

\* the triangle test, called with a triangle and a point of its own
PointInTriangle(t, p) ==
    /\ StepGeom
    /\ \E px \in {p[1] * (ScreenScale \div 2)}, py \in {p[2] * (ScreenScale \div 2)} :
           ret' = Called("_point_in_triangle", <<px, py, t[1], t[2], t[3]>>,
                         point_in_triangle(px, py, t[1], t[2], t[3]))
    /\ UNCHANGED iso_renderer

NextGeom ==
    \/ CalculateDiamondVertices
    \/ IsPointInDiamond
    \/ \E t \in GeomTriangles, p \in GeomPoints : PointInTriangle(t, p)

SpecGeom == InitGeom /\ [][NextGeom]_vars

\* the seven points of a tile's quad about the anchor <<cx, cy>>: the roof's
\* top, left, right and bottom at the offsets half and quarter (of the scaled
\* cell size) and width, the three floor points drop below left, right and
\* bottom; all in 1/ScreenScale pixels
QuadAbout(cx, cy, width, half, quarter, drop) ==
    [top           |-> <<cx + half, cy>>,
     left          |-> <<cx, cy + quarter>>,
     right         |-> <<cx + width, cy + quarter>>,
     bottom        |-> <<cx + half, cy + half>>,
     bottom_left   |-> <<cx, cy + quarter + drop>>,
     bottom_right  |-> <<cx + width, cy + quarter + drop>>,
     bottom_bottom |-> <<cx + half, cy + half + drop>>]

\* with cellSize 16, heightUnit 3, zoom 1.0 and height 1: a roof 16 wide and
\* 8 high, each floor point 3 pixels below its roof point
QuadOfUnitTile(v) ==
    /\ v.right[1] - v.left[1] = 16 * ScreenScale
    /\ v.bottom[2] - v.top[2] = 8 * ScreenScale
    /\ v.left[2] = v.right[2]
    /\ v.top[1] = v.bottom[1]
    /\ v.bottom_left = <<v.left[1], v.left[2] + 3 * ScreenScale>>
    /\ v.bottom_right = <<v.right[1], v.right[2] + 3 * ScreenScale>>
    /\ v.bottom_bottom = <<v.bottom[1], v.bottom[2] + 3 * ScreenScale>>

\* C12 as stated: calculate_diamond_vertices returns the seven points, the
\* roof at half and quarter of the scaled cell size from the anchor, the floor
\* points height * heightUnit * zoom pixels below left, right and bottom; for
\* zoom 1.0 and height 1 the roof is 16 wide and 8 high and the drop is 3.
C12_QuadGeometry ==
    ret.op = "calculate_diamond_vertices"
    => LET size == ret.args[3]
           height == ret.args[4]
           zoom == ret.args[5]
       IN  /\ ret.value = QuadAbout(ret.args[1], ret.args[2], size * ScreenScale,
                                    (size * ScreenScale) \div 2,
                                    (size * ScreenScale) \div 4,
                                    height * HEIGHT_UNIT * zoom * TrigScale)
           /\ (zoom = ZOOM_ONE /\ height = 1) => QuadOfUnitTile(ret.value)

\* C12 amended: the roof's offsets are the whole-pixel half and quarter of the
\* scaled cell size (size // 2, size // 4), and the floor points are
\* int(height * heightUnit * zoom) pixels below left, right and bottom: the
\* drop is truncated to whole pixels.
C12_QuadGeometryWholePixels ==
    ret.op = "calculate_diamond_vertices"
    => LET size == ret.args[3]
           height == ret.args[4]
           zoom == ret.args[5]
       IN  /\ ret.value = QuadAbout(ret.args[1], ret.args[2], size * ScreenScale,
                                    (size \div 2) * ScreenScale,
                                    (size \div 4) * ScreenScale,
                                    ((height * HEIGHT_UNIT * zoom) \div ZoomScale)
                                        * ScreenScale)
           /\ (zoom = ZOOM_ONE /\ height = 1) => QuadOfUnitTile(ret.value)

\* the quad of a tile of height 3 at zoom 1.65 has been computed: the scaled
\* cell size is 26 and the walls' height 14.85 pixels before truncation
C12_QuadComputedZoomed ==
    /\ ret.op = "calculate_diamond_vertices"
    /\ ret.args[3] = 26
    /\ ret.args[4] = 3
    /\ ret.args[5] = 33
    /\ ret.value.bottom_left[2] - ret.value.left[2] = 14 * ScreenScale

\* the three points lie on one line or coincide: the triangle has no area
ZeroArea(p1, p2, p3) ==
    (p2[1] - p1[1]) * (p3[2] - p1[2]) - (p3[1] - p1[1]) * (p2[2] - p1[2]) = 0

\* C17: _point_in_triangle answers False for every zero-area triangle, and
\* _is_point_in_diamond answers False for every pointer position when the
\* scaled cell size int(cell_size * zoom) is 0 or 1 (the roof quad collapsed).
C17_DegenerateNotHit ==
    /\ ( /\ ret.op = "_point_in_triangle"
         /\ ZeroArea(ret.args[3], ret.args[4], ret.args[5]) )
       => ret.value = FALSE
    /\ ( /\ ret.op = "_is_point_in_diamond"
         /\ CELL_SIZE * ret.args[6].zoom < 2 * ZoomScale )
       => ret.value = FALSE

\* the roof quad had collapsed to a segment one pixel long (scaled cell size
\* 1), the pointer was on that segment, and the answer was False
C17_PointerOnCollapsedRoof ==
    /\ ret.op = "_is_point_in_diamond"
    /\ ScaledCellSize(CELL_SIZE, ret.args[6].zoom) = 1
    /\ \E iso \in {grid_to_iso_compute(iso_renderer, ret.args[3], ret.args[4],
                                        ret.args[5].height, ret.args[6])} :
           /\ ret.args[2] = iso[2]
           /\ iso[1] <= ret.args[1] /\ ret.args[1] <= iso[1] + ScreenScale
    /\ ret.value = FALSE


(***************************************************************************)
(* The paint order of App.draw on constructed grids: a window of flat      *)
(* tiles, or of flat tiles around one spike, seen at every rotation step.  *)
(* ret holds the order the last draw painted the tiles in.                 *)
(***************************************************************************)
\* the grids painted: flat ones, and spikes of several heights on the
\* window's centre tile and off it
PaintMaps ==
    {MapData(1, 0, 0, 1), MapData(3, 0, 0, 3)}
        \cup {MapData(1, 128, 128, h) : h \in {5, TallSpike}}
        \cup {MapData(2, 131, 126, TallSpike)}

\* the window's tiles over the backing tiles m, at the initial position
PaintSlice(m) ==
    BackingSlice([map_size |-> MAP_SIZE, tiles |-> m],
                 ViewportState(INITIAL_VIEWPORT, INITIAL_VIEWPORT, VIEWPORT_SIZE))

InitPaint ==
    /\ \E m \in PaintMaps, r \in 0..(360 \div ROTATION_STEP - 1) :
           /\ map_grid = [map_size |-> MAP_SIZE, tiles |-> m]
           /\ app = update_camera_rotation(
                        [NewWorld.app EXCEPT !.rotation_index = r,
                                             !.current_tiles = PaintSlice(m)])
    /\ viewport_manager = None
    /\ iso_renderer = None
    /\ mouse_hit_detector = None
    /\ frame_count = 0
    /\ ret = Called("__init__", << >>, None)

\* the sort of App.draw
Paint ==
    /\ ret' = Called("draw", << >>, paint_order(app))
    /\ UNCHANGED <<map_grid, app, viewport_manager, iso_renderer,
                   mouse_hit_detector, frame_count>>

\* Q or E pressed
PaintRotate(key) ==
    /\ app' = UpdateRotate(World(app, None, None, None, None),
                           Input({key}, 0, 0, 0, None, None)).app
    /\ ret' = Called("update", << >>, None)
    /\ UNCHANGED <<map_grid, viewport_manager, iso_renderer, mouse_hit_detector,
                   frame_count>>

NextPaint ==
    \/ Paint
    \/ \E key \in {"Q", "E"} : PaintRotate(key)

SpecPaint == InitPaint /\ [][NextPaint]_vars

\* the heights of the window's tiles
WindowHeights(a) ==
    {a.current_tiles[y][x].height : x \in 1..a.viewport_size, y \in 1..a.viewport_size}

\* the window cells that hold a tile higher than every other tile
Spikes(a) ==
    {c \in (0..(a.viewport_size - 1)) \X (0..(a.viewport_size - 1)) :
        /\ a.current_tiles[c[2] + 1][c[1] + 1].height > 1
        /\ \A h \in WindowHeights(a) : h <= a.current_tiles[c[2] + 1][c[1] + 1].height}

\* one spike in a window of otherwise flat tiles
IsSpikeGrid(a) == Cardinality(WindowHeights(a)) = 2 /\ Cardinality(Spikes(a)) = 1

\* the place of cell <<x, y>> in a paint order
PlaceIn(order, x, y) == CHOOSE p \in 1..Len(order) : order[p][2] = x /\ order[p][3] = y

\* rotated x + y of a cell, in 1/TrigScale
RotatedSum(x, y, camera_state) ==
    LET rotated == rotate_coordinates(x, y, camera_state.rotation,
                                      <<RENDER_CENTER, RENDER_CENTER>>)
    IN  rotated[1] + rotated[2]

\* the cells next to <<x, y>> in the window
NeighboursOf(a, x, y) ==
    {c \in (0..(a.viewport_size - 1)) \X (0..(a.viewport_size - 1)) :
        c # <<x, y>> /\ c[1] - x \in -1..1 /\ c[2] - y \in -1..1}

\* C6: in a window with one spike among flat tiles, at the rotations 0, 90,
\* 180 and 270, the paint order paints the spike after every flat neighbour
\* that is behind it (smaller rotated x + y).
C6_SpikePaintedAfterBehind ==
    (ret.op = "draw" /\ IsSpikeGrid(app) /\ app.camera_state.rotation \in {0, 90, 180, 270})
    => \A s \in Spikes(app) : \A c \in NeighboursOf(app, s[1], s[2]) :
           RotatedSum(c[1], c[2], app.camera_state)
                   < RotatedSum(s[1], s[2], app.camera_state)
               => PlaceIn(ret.value, c[1], c[2]) < PlaceIn(ret.value, s[1], s[2])

\* a window with a spike has been painted at rotation 180
C6_SpikePainted ==
    /\ ret.op = "draw"
    /\ IsSpikeGrid(app)
    /\ app.camera_state.rotation = 180

\* C7: on a window of uniform height, at every rotation step, a tile whose
\* projected screen y is strictly smaller than another's is painted before it.
C7_FlatDepthMonotone ==
    (ret.op = "draw" /\ Cardinality(WindowHeights(app)) = 1)
    => \E sy \in {[p \in 1..Len(ret.value) |->
                      grid_to_iso_compute(
                          NewIsometricRenderer(CELL_SIZE, HEIGHT_UNIT),
                          ret.value[p][2], ret.value[p][3],
                          app.current_tiles[ret.value[p][3] + 1][ret.value[p][2] + 1].height,
                          app.camera_state)[2]]} :
           \A p, q \in 1..Len(ret.value) : sy[p] < sy[q] => p < q

\* a flat window has been painted at a rotation off the axes
C7_FlatPaintedRotated ==
    /\ ret.op = "draw"
    /\ WindowHeights(app) = {3}
    /\ app.camera_state.rotation = 105

(***************************************************************************)
(* The hit test against what App.draw paints (specification Spec)          *)
(***************************************************************************)
\* the window's cells
WindowCells(a) == (0..(a.viewport_size - 1)) \X (0..(a.viewport_size - 1))

\* the roof draw_diamond_tile paints for cell <<x, y>>,
\* rect_poly(FL, FT, FR, FB): does it contain the point (px, py), given in
\* 1/ScreenScale pixels?
RoofContains(a, x, y, px, py) ==
    LET tile   == a.current_tiles[y + 1][x + 1]
        iso    == grid_to_iso_compute(NewIsometricRenderer(CELL_SIZE, HEIGHT_UNIT),
                                      x, y, tile.height, a.camera_state)
        scaled == ScaledCellSize(CELL_SIZE, a.camera_state.zoom)
        FT     == <<scaled \div 2, 0>>
        FL     == <<0, scaled \div 4>>
        FR     == <<scaled, scaled \div 4>>
        FB     == <<scaled \div 2, scaled \div 2>>
    IN  \/ point_in_triangle(px - iso[1], py - iso[2], FL, FT, FR)
        \/ point_in_triangle(px - iso[1], py - iso[2], FL, FR, FB)

\* the window cells whose painted roof contains the pointer
RoofsUnderPointer(a) ==
    {c \in WindowCells(a) :
        RoofContains(a, c[1], c[2], a.mouse_x * ScreenScale, a.mouse_y * ScreenScale)}

\* the draw loop paints c before d: the sort of tiles_with_depth is by depth,
\* and list.sort keeps the loop's order (rows outermost) between equal depths
PaintedBefore(a, c, d) ==
    \/ app_get_tile_depth(a, c[1], c[2]) < app_get_tile_depth(a, d[1], d[2])
    \/ /\ app_get_tile_depth(a, c[1], c[2]) = app_get_tile_depth(a, d[1], d[2])
       /\ c[2] * a.viewport_size + c[1] < d[2] * a.viewport_size + d[1]

\* the window cells whose roof centre (grid_to_iso offset by half and a
\* quarter of the scaled cell size) is the pointer
RoofCentredOnPointer(a) ==
    {c \in WindowCells(a) :
        LET iso == grid_to_iso_compute(NewIsometricRenderer(CELL_SIZE, HEIGHT_UNIT),
                       c[1], c[2], a.current_tiles[c[2] + 1][c[1] + 1].height,
                       a.camera_state)
            scaled == ScaledCellSize(CELL_SIZE, a.camera_state.zoom)
        IN  /\ a.mouse_x * ScreenScale = iso[1] + (scaled \div 2) * ScreenScale
            /\ a.mouse_y * ScreenScale = iso[2] + (scaled \div 4) * ScreenScale}

\* a step of App.draw whose hit test is computed, not served from
\* result_cache, on a window whose painted tiles are the backing grid's
ComputedDraw ==
    /\ frame_count' = frame_count
    /\ app.current_tiles = BackingSlice(map_grid, viewport_manager.viewport_state)
    /\ ~HasKey(mouse_hit_detector.result_cache,
               <<app.mouse_x * ScreenScale, app.mouse_y * ScreenScale>>)
    /\ HasKey(mouse_hit_detector'.result_cache,
              <<app.mouse_x * ScreenScale, app.mouse_y * ScreenScale>>)

\* C3: when the hit test of a draw returns a tile, that tile is the one
\* painted last among the window tiles whose painted roof contains the
\* pointer.
C3_HitIsPaintedLast ==
    [][(ComputedDraw /\ app'.hovered_tile # None)
        => \E under \in {RoofsUnderPointer(app')} :
               /\ app'.hovered_tile \in under
               /\ \A c \in under \ {app'.hovered_tile} :
                      PaintedBefore(app', c, app'.hovered_tile)]_vars

\* the hit test has returned a tile at a pointer that two painted roofs hold
C3_HitUnderTwoRoofs ==
    /\ app.hovered_tile # None
    /\ app.mouse_x = 160 /\ app.mouse_y = 195
    /\ Cardinality(RoofsUnderPointer(app)) >= 2

\* C4: a hit test at the centre of the roof of window cell (gx, gy) returns
\* (gx, gy) whenever no other tile's roof contains that pixel.
C4_RoofCentreHits ==
    [][ComputedDraw
        => \A c \in RoofCentredOnPointer(app') :
               RoofsUnderPointer(app') = {c} => app'.hovered_tile = c]_vars

\* a draw has tested the centre of a roof no other roof covers
C4_RoofCentreTested ==
    /\ HasKey(mouse_hit_detector.result_cache,
              <<app.mouse_x * ScreenScale, app.mouse_y * ScreenScale>>)
    /\ \E c \in RoofCentredOnPointer(app) : RoofsUnderPointer(app) = {c}

\* C5: the hit test of every draw returns what a computation on the current
\* camera state, window position and tiles, with no memo, returns.
C5_HitResultFresh ==
    [][frame_count' = frame_count
        => app'.hovered_tile =
               get_tile_at_mouse(hit_clear_cache(mouse_hit_detector),
                                 viewport_manager, iso_renderer, map_grid,
                                 app.mouse_x * ScreenScale, app.mouse_y * ScreenScale,
                                 app.camera_state, WIN_WIDTH, WIN_HEIGHT).ret]_vars

\* a draw has tested a pointer whose result was memoized under another
\* rotation
C5_DrawnAfterRotation ==
    /\ app.camera_state.rotation # 0
    /\ app.hovered_tile # None
    /\ frame_count = MaxFrames
    /\ Len(mouse_hit_detector.result_cache) = 1
    /\ Cardinality(DOMAIN iso_renderer.coord_cache) > VIEWPORT_SIZE * VIEWPORT_SIZE


(***************************************************************************)
(* The hit detector over a backing grid smaller than the 256 cells the     *)
(* viewport manager clamps its window to (MapGrid(map_size)): the window   *)
(* then has cells with no tile behind them, for which the slice holds      *)
(* placeholders.  ret holds the last call; for a hit test, ret.cached says *)
(* whether the memo held the pointer before the call.                      *)
(***************************************************************************)
\* calls explored
MaxAbsentCalls == 3

\* the side of the backing grid
SmallMapSize == 130

InitAbsent ==
    /\ map_grid = [map_size |-> SmallMapSize, tiles |-> create_empty_map]
    /\ viewport_manager
           = set_viewport_position(
                 NewViewportManager(map_grid, VIEWPORT_SIZE, CACHE_SIZE),
                 map_grid, 112, 112).vm
    /\ iso_renderer = NewIsometricRenderer(CELL_SIZE, HEIGHT_UNIT)
    /\ mouse_hit_detector = NewMouseHitDetector(CELL_SIZE, HEIGHT_UNIT)
    /\ app = [camera_state |-> InitialCameraState]
    /\ frame_count = 0
    /\ ret = Called("__init__", <<SmallMapSize>>, None)

CallAbsent ==
    /\ frame_count < MaxAbsentCalls
    /\ frame_count' = frame_count + 1
    /\ UNCHANGED <<map_grid, app>>

\* MapGrid.get_tile(x, y)
LookupTile(x, y) ==
    /\ CallAbsent
    /\ ret' = Called("get_tile", <<x, y>>, get_tile(map_grid, x, y))
    /\ UNCHANGED <<viewport_manager, iso_renderer, mouse_hit_detector>>

\* get_tile_at_mouse(mouse_x, mouse_y, camera_state, current_tiles, 256, 256)
HitTest(mouse_x, mouse_y) ==
    /\ CallAbsent
    /\ \E hit \in {get_tile_at_mouse(mouse_hit_detector, viewport_manager,
                                     iso_renderer, map_grid,
                                     mouse_x * ScreenScale, mouse_y * ScreenScale,
                                     app.camera_state, WIN_WIDTH, WIN_HEIGHT)} :
           /\ mouse_hit_detector' = hit.detector
           /\ viewport_manager' = hit.vm
           /\ iso_renderer' = hit.renderer
           /\ ret' = [op     |-> "get_tile_at_mouse",
                      args   |-> <<mouse_x, mouse_y>>,
                      value  |-> hit.ret,
                      cached |-> HasKey(mouse_hit_detector.result_cache,
                                        <<mouse_x * ScreenScale,
                                          mouse_y * ScreenScale>>)]

\* the window moved, as update_viewport_tiles moves it
MoveWindow(x, y) ==
    /\ CallAbsent
    /\ \E r \in {set_viewport_position(viewport_manager, map_grid, x, y)} :
           /\ viewport_manager' = r.vm
           /\ ret' = Called("set_viewport_position", <<x, y>>, r.ret)
    /\ UNCHANGED <<iso_renderer, mouse_hit_detector>>

\* MouseHitDetector.clear_cache
ClearHitCache ==
    /\ CallAbsent
    /\ mouse_hit_detector' = hit_clear_cache(mouse_hit_detector)
    /\ ret' = Called("clear_cache", << >>, None)
    /\ UNCHANGED <<viewport_manager, iso_renderer>>

\* coordinates looked up off the backing grid on each side and on it; the
\* pointer on the roof centres of window cells (8, 8), (4, 4) and (5, 5); the
\* window moved to where all of it is on the grid and to where part of it is off
NextAbsent ==
    \/ \E a \in {<<-1, 0>>, <<SmallMapSize, 5>>, <<0, SmallMapSize + 126>>,
                  <<SmallMapSize - 1, SmallMapSize - 1>>, <<0, 0>>} :
           LookupTile(a[1], a[2])
    \/ \E p \in {<<136, 193>>, <<136, 161>>, <<136, 169>>} : HitTest(p[1], p[2])
    \/ \E a \in {<<112, 112>>, <<125, 125>>} : MoveWindow(a[1], a[2])
    \/ ClearHitCache

SpecAbsent == InitAbsent /\ [][NextAbsent]_vars

\* the coordinate is one of the backing grid's
OnGrid(grid, x, y) == 0 <= x /\ x < grid.map_size /\ 0 <= y /\ y < grid.map_size

\* C16: a lookup outside the backing grid returns None, and get_tile_at_mouse
\* never returns a window cell whose backing coordinate has no real tile: the
\* placeholders of the slice are never a hit result.
C16_AbsentNeverHit ==
    /\ ret.op = "get_tile"
       => ret.value = IF OnGrid(map_grid, ret.args[1], ret.args[2])
                      THEN TileOf(map_grid.tiles, ret.args[1], ret.args[2])
                      ELSE None
    /\ (ret.op = "get_tile_at_mouse" /\ ret.value # None)
       => OnGrid(map_grid,
                 ret.value[1] + viewport_manager.viewport_state.x,
                 ret.value[2] + viewport_manager.viewport_state.y)

\* the pointer was on the roof of a placeholder of the current slice, the
\* hit was computed, and nothing was hit
C16_PlaceholderNotHit ==
    /\ ret.op = "get_tile_at_mouse"
    /\ ret.args = <<136, 193>>
    /\ ~ret.cached
    /\ get_viewport_position(viewport_manager) = <<125, 125>>
    /\ get_current_tiles(viewport_manager)[9][9] = DummyTile(133, 133)
    /\ ~OnGrid(map_grid, 133, 133)
    /\ ret.value = None


(***************************************************************************)
(* The run loop over frames whose inputs zoom or reset the view, long      *)
(* enough for the zoom to reach both of its limits.  ret holds the input   *)
(* of the last update and the zoom before it.                              *)
(***************************************************************************)
\* frames explored
MaxZoomFrames == 14

\* the frames' inputs: Z, X, both, the wheel in either direction alone and
\* with a key, the reset, and a frame that zooms and resets
ZoomInputs ==
    {Input(k, 168, 209, wheel, None, MapData(1, 0, 0, 1)) :
         k \in {{"Z"}, {"X"}, {"Z", "X"}, {}, {"C"}, {"Z", "C"}},
         wheel \in {-1, 0, 1}}

ZoomFrame(in) ==
    /\ frame_count < MaxZoomFrames
    /\ frame_count' = frame_count + 1
    /\ \E w \in {update(TheWorld, in)} : Becomes(w)
    /\ ret' = Called("update", in, app.camera_state.zoom)

NextZoom == \E in \in ZoomInputs : ZoomFrame(in)

SpecZoom == Init /\ [][NextZoom]_vars

\* C18: after any sequence of update steps the camera zoom is positive and
\* within 0.3 .. 3.0 (zoom is held in 1/ZoomScale units).
C18_ZoomClamped ==
    /\ app.camera_state.zoom > 0
    /\ 3 * ZoomScale <= 10 * app.camera_state.zoom
    /\ app.camera_state.zoom <= 3 * ZoomScale

\* at zoom 0.35, X was pressed and the wheel turned back in one frame: the
\* zoom went to the lower limit and no further
C18_ZoomedOutAtLimit ==
    /\ ret # None
    /\ ret.op = "update"
    /\ ret.value = ZOOM_MIN + 1
    /\ ret.args.keys = {"X"}
    /\ ret.args.wheel = -1
    /\ app.camera_state.zoom = ZOOM_MIN


(***************************************************************************)
(* The run loop over a few frames of every kind of input, each of which    *)
(* may be followed by a drawn frame: a step that leaves frame_count as it  *)
(* is is a call of App.draw.                                               *)
(***************************************************************************)
\* frames explored
MaxDrawFrames == 2

\* the frames' inputs: a turn either way, window moves, a zoom by key and
\* wheel, a pan, a map load, a map regeneration, and the pointer moved to the
\* centre of a roof and to a corner four roofs share
DrawInputs ==
    {Input(k, 168, 209, 0, None, MapData(1, 0, 0, 1)) :
         k \in {{"Q"}, {"E"}, {"D"}, {"W", "A"}, {"LEFT", "UP"}}}
    \cup {Input({"Z"}, 168, 209, 1, None, MapData(1, 0, 0, 1)),
          Input({}, 136, 193, 0, None, MapData(1, 0, 0, 1)),
          Input({}, 136, 189, 0, None, MapData(1, 0, 0, 1)),
          Input({"F3"}, 168, 209, 0, None, MapData(2, 128, 128, 4)),
          Input({"F2"}, 168, 209, 0, MapData(1, 121, 120, TallSpike),
                MapData(1, 0, 0, 1))}

DrawFrame(in) ==
    /\ frame_count < MaxDrawFrames
    /\ frame_count' = frame_count + 1
    /\ \E w \in {update(TheWorld, in)} : Becomes(w)
    /\ ret' = None

NextDraw ==
    \/ \E in \in DrawInputs : DrawFrame(in)
    \/ Draw

SpecDraw == Init /\ [][NextDraw]_vars

\* C19: get_tile_at_mouse, grid_to_iso and get_tile_depth, as App.draw calls
\* them, change no tile, not the backing grid, the camera state, the window
\* position or the current slice; they change memo caches only.
C19_HitTestingReadOnly ==
    [][frame_count' = frame_count
       => /\ map_grid' = map_grid
          /\ app'.camera_state = app.camera_state
          /\ app'.current_tiles = app.current_tiles
          /\ viewport_manager'.viewport_state = viewport_manager.viewport_state
          /\ get_current_tiles(viewport_manager')
                 = get_current_tiles(viewport_manager)
          /\ <<app'.viewport_x, app'.viewport_y>> = <<app.viewport_x, app.viewport_y>>]_vars

\* after the window had moved and the view had turned, a frame was drawn: the
\* hit test found a tile and memoized it, and the projections were memoized
C19_DrawnAfterMoveAndTurn ==
    /\ app.hovered_tile # None
    /\ Len(mouse_hit_detector.result_cache) > 0
    /\ DOMAIN iso_renderer.coord_cache # {}
    /\ app.viewport_x # INITIAL_VIEWPORT
    /\ app.camera_state.rotation # 0


\* the place of an item <<depth, x, y>> in the list before the sort: rows
\* outermost
InputPlace(a, item) == item[3] * a.viewport_size + item[2]

\* C20: the draw loop paints every one of the size x size window cells
\* exactly once (as many paints as cells, and every cell among them), in
\* ascending depth, and tiles of equal depth in their input (row-major)
\* order: of any two paints the earlier has the smaller depth or, at equal
\* depth, the earlier input place.
C20_PaintOrder ==
    ret.op = "draw"
    => LET order == ret.value
           n     == app.viewport_size * app.viewport_size
       IN  /\ Len(order) = n
           /\ {<<order[p][2], order[p][3]>> : p \in 1..n} = WindowCells(app)
           /\ \A p \in 1..n : order[p][1] = app_get_tile_depth(app, order[p][2], order[p][3])
           /\ \A p \in 1..n : \A q \in (p + 1)..n :
                  \/ order[p][1] < order[q][1]
                  \/ /\ order[p][1] = order[q][1]
                     /\ InputPlace(app, order[p]) < InputPlace(app, order[q])

\* a turned window with a spike was painted: the sort moved tiles from their
\* input order, and tiles of equal depth were painted one after the other
C20_PaintedTurnedWindow ==
    /\ ret.op = "draw"
    /\ app.camera_state.rotation = 6 * ROTATION_STEP
    /\ TallSpike \in WindowHeights(app)
    /\ \E p \in 1..(Len(ret.value) - 1) :
           InputPlace(app, ret.value[p]) > InputPlace(app, ret.value[p + 1])
    /\ \E p \in 1..(Len(ret.value) - 1) : ret.value[p][1] = ret.value[p + 1][1]


\* the candidates of a hit test at the pointer of App a that have a tile:
\* window cell, tile and depth of each
HitCandidates(a, vm, detector, grid) ==
    LET cells == get_candidate_tiles(detector, vm, a.mouse_x * ScreenScale,
                                     a.mouse_y * ScreenScale, a.camera_state,
                                     WIN_WIDTH, WIN_HEIGHT)
        tile(c) == get_tile_cached(vm, grid, c[1] + vm.viewport_state.x,
                                   c[2] + vm.viewport_state.y).tile
    IN  {[cell |-> cells[i], tile |-> tile(cells[i]),
          depth |-> get_tile_depth(cells[i][1], cells[i][2], tile(cells[i]).height,
                                   a.camera_state)] :
            i \in {j \in 1..Len(cells) : tile(cells[j]) # None}}

\* the candidates whose roof diamond contains the pointer
HitCandidatesUnderPointer(a, vm, detector, renderer, grid) ==
    {c \in HitCandidates(a, vm, detector, grid) :
        is_point_in_diamond(detector, renderer, a.mouse_x * ScreenScale,
                            a.mouse_y * ScreenScale, c.cell[1], c.cell[2], c.tile,
                            a.camera_state).in_diamond}

\* C21: a computed hit test returns a candidate whose roof diamond contains
\* the pointer and that comes first in ascending depth and, for equal depth,
\* descending height among the candidates whose roof contains it; it returns
\* None when no candidate's roof contains the pointer.
C21_FirstInDepthOrder ==
    [][( /\ frame_count' = frame_count
         /\ ~HasKey(mouse_hit_detector.result_cache,
                    <<app.mouse_x * ScreenScale, app.mouse_y * ScreenScale>>) )
       => \E under \in {HitCandidatesUnderPointer(app, viewport_manager,
                            mouse_hit_detector, iso_renderer, map_grid)} :
              IF under = {}
              THEN app'.hovered_tile = None
              ELSE \E c \in under :
                       /\ app'.hovered_tile = c.cell
                       /\ \A d \in under :
                              \/ c.depth < d.depth
                              \/ c.depth = d.depth /\ c.tile.height >= d.tile.height]_vars

\* the pointer was on a corner four roofs share, and the hit test returned
\* the one of them with the least depth
C21_HitAmongFourRoofs ==
    /\ app.mouse_x = 136 /\ app.mouse_y = 189
    /\ app.camera_state = InitialCameraState
    /\ app.hovered_tile = <<7, 7>>
    /\ Cardinality(HitCandidatesUnderPointer(app, viewport_manager, mouse_hit_detector,
                                             iso_renderer, map_grid)) = 4

(***************************************************************************)
(* The inverse estimate of the hit test against the projection             *)
(***************************************************************************)
\* grid_x_float, grid_y_float of _get_candidate_tiles for the screen point
\* `point' under the camera, as <<x numerator, y numerator, denominator>>;
\* the detector and the window are those App.__init__ builds
EstimateAt(point, camera_state) ==
    grid_estimate(NewMouseHitDetector(CELL_SIZE, HEIGHT_UNIT),
                  [viewport_state |-> [size |-> VIEWPORT_SIZE]],
                  point[1], point[2], camera_state, WIN_WIDTH, WIN_HEIGHT)

\* the estimate est is the grid coordinate g: exactly where the sines and
\* cosines are exact (quarter turns), and within a tenth of a cell where the
\* table of hundredths rounds them
EstimateIs(est, i, g, rotation) ==
    IF rotation % 90 = 0
    THEN est[i] = g * est[3]
    ELSE /\ (est[i] - g * est[3]) * 10 <= est[3]
         /\ (g * est[3] - est[i]) * 10 <= est[3]

\* C22: for every camera state (any zoom, any pan, any rotation step) and
\* every grid point, the estimate _get_candidate_tiles computes for the
\* screen point grid_to_iso(gx, gy, 0, camera) is (gx, gy)
C22_EstimateInvertsProjection ==
    (ret.op = "grid_to_iso" /\ ret.args[3] = 0)
        => \E est \in {EstimateAt(ret.value, ret.args[4])} :
               /\ EstimateIs(est, 1, ret.args[1], ret.args[4].rotation)
               /\ EstimateIs(est, 2, ret.args[2], ret.args[4].rotation)

\* a point at height 0 was projected by an unrotated camera that is both
\* zoomed and panned, and the estimate for the projected point is not the
\* grid point
C22_PannedZoomedEstimateOff ==
    /\ ret.op = "grid_to_iso"
    /\ ret.args[3] = 0
    /\ ret.args[4].rotation = 0
    /\ ret.args[4].zoom = 33
    /\ ret.args[4].offset_x = -14 /\ ret.args[4].offset_y = 6
    /\ \E est \in {EstimateAt(ret.value, ret.args[4])} :
           /\ est[1] # ret.args[1] * est[3]
           /\ est[2] # ret.args[2] * est[3]

(***************************************************************************)
(* The hit detector's memo filled to its capacity: the pointer sweeps a    *)
(* line of pixels, and once the memo is nearly full it may also go back to *)
(* the pixel of the memo's first or last entry.  ret holds the last call   *)
(* and, in recency, the keys looked up so far, each once, in the order of  *)
(* their most recent lookup (computed or served from the memo).            *)
(***************************************************************************)
\* calls explored
MaxHitCalls == 55

InitHitCache ==
    /\ map_grid = NewMapGrid
    /\ viewport_manager
           = set_viewport_position(
                 NewViewportManager(map_grid, VIEWPORT_SIZE, CACHE_SIZE),
                 map_grid, INITIAL_VIEWPORT, INITIAL_VIEWPORT).vm
    /\ iso_renderer = NewIsometricRenderer(CELL_SIZE, HEIGHT_UNIT)
    /\ mouse_hit_detector = NewMouseHitDetector(CELL_SIZE, HEIGHT_UNIT)
    /\ app = [camera_state |-> InitialCameraState]
    /\ frame_count = 0
    /\ ret = [op |-> "__init__", args |-> << >>, value |-> None,
              cached |-> FALSE, recency |-> << >>]

\* get_tile_at_mouse(mouse_x, mouse_y, camera_state, current_tiles, 256, 256)
MemoHitTest(mouse_x, mouse_y) ==
    /\ frame_count < MaxHitCalls
    /\ frame_count' = frame_count + 1
    /\ \E hit \in {get_tile_at_mouse(mouse_hit_detector, viewport_manager,
                                     iso_renderer, map_grid,
                                     mouse_x * ScreenScale, mouse_y * ScreenScale,
                                     app.camera_state, WIN_WIDTH, WIN_HEIGHT)} :
           \E cache_key \in {<<mouse_x * ScreenScale, mouse_y * ScreenScale>>} :
               /\ mouse_hit_detector' = hit.detector
               /\ viewport_manager' = hit.vm
               /\ iso_renderer' = hit.renderer
               /\ ret' = [op      |-> "get_tile_at_mouse",
                          args    |-> <<mouse_x, mouse_y>>,
                          value   |-> hit.ret,
                          cached  |-> HasKey(mouse_hit_detector.result_cache, cache_key),
                          recency |-> Append(SelectSeq(ret.recency,
                                                       LAMBDA k : k # cache_key),
                                             cache_key)]
    /\ UNCHANGED <<map_grid, app>>

\* the pointer moves on to a pixel it has not been on
PointerOn == MemoHitTest(100 + Len(ret.recency), 128)

\* the pointer goes back to the pixel of the memo's i-th entry
PointerBack(i) ==
    /\ Len(mouse_hit_detector.result_cache) >= mouse_hit_detector.cache_max_size - 1
    /\ i \in 1..Len(mouse_hit_detector.result_cache)
    /\ MemoHitTest(mouse_hit_detector.result_cache[i].key[1] \div ScreenScale,
                   mouse_hit_detector.result_cache[i].key[2] \div ScreenScale)

NextHitCache ==
    \/ PointerOn
    \/ \E i \in {1, Len(mouse_hit_detector.result_cache)} : PointerBack(i)

SpecHitCache == InitHitCache /\ [][NextHitCache]_vars

\* the key of the memo whose most recent lookup is the oldest
LeastRecentlyUsed(items, recency) ==
    recency[CHOOSE i \in 1..Len(recency) :
                /\ HasKey(items, recency[i])
                /\ \A j \in 1..(i - 1) : ~HasKey(items, recency[j])]

\* C23: the memo of hit results never holds more than cache_max_size (50)
\* entries, and the entry a full memo evicts is the least recently used one,
\* a lookup served from the memo counting as a use
C23_BoundedLRU ==
    [][/\ Len(mouse_hit_detector'.result_cache) <= mouse_hit_detector.cache_max_size
       /\ \A i \in 1..Len(mouse_hit_detector.result_cache) :
              \E k \in {mouse_hit_detector.result_cache[i].key} :
                  ~HasKey(mouse_hit_detector'.result_cache, k)
                      => /\ Len(mouse_hit_detector.result_cache)
                                = mouse_hit_detector.cache_max_size
                         /\ k = LeastRecentlyUsed(mouse_hit_detector.result_cache,
                                                  ret.recency)]_vars

\* the memo is full and the key looked up just before the last one, served
\* from the memo then, is no longer in it
C23_RecentlyUsedEvicted ==
    /\ Len(mouse_hit_detector.result_cache) = mouse_hit_detector.cache_max_size
    /\ Len(ret.recency) > mouse_hit_detector.cache_max_size
    /\ ~ret.cached
    /\ ~HasKey(mouse_hit_detector.result_cache, ret.recency[Len(ret.recency) - 1])

(***************************************************************************)
(* The manager's two caches against a caller's own account of its          *)
(* lookups.  app holds, for the tiles and for the slices, the keys looked  *)
(* up since the last clear_cache, each once, least recently looked up      *)
(* first and no more of them than the cache's capacity: the keys a cache   *)
(* that evicts the least recently used entry holds.  ret holds the last    *)
(* call.                                                                   *)
(***************************************************************************)
\* calls explored
MaxLRUCalls == 3

\* the keys after `key' is looked up: it becomes the most recent, and the
\* least recent ones beyond max_size are dropped
LRUUse(keys, key, max_size) ==
    LET others == SelectSeq(keys, LAMBDA k : k # key)
        kept   == IF Len(others) >= max_size
                  THEN SubSeq(others, Len(others) - max_size + 2, Len(others))
                  ELSE others
    IN  Append(kept, key)

\* the account after get_tile_cached(x, y): a tile the grid does not have is
\* not kept
UsedTile(used, vm, grid, x, y) ==
    IF get_tile(grid, x, y) = None
    THEN used
    ELSE [used EXCEPT !.tiles = LRUUse(@, <<x, y>>, vm.cache_size)]

\* the account after the tiles of a slice are looked up, row by row, from
\* cell i on
RECURSIVE UsedCells(_, _, _, _, _, _)
UsedCells(used, vm, grid, start_x, start_y, i) ==
    IF i >= vm.viewport_state.size * vm.viewport_state.size
    THEN used
    ELSE The({UsedCells(u, vm, grid, start_x, start_y, i + 1) :
                  u \in {UsedTile(used, vm, grid,
                                  start_x + (i % vm.viewport_state.size),
                                  start_y + (i \div vm.viewport_state.size))}})

\* the account after get_viewport_tiles_cached(start_x, start_y, size): a
\* slice that is not kept is built from its tiles
UsedSlice(used, vm, grid, start_x, start_y) ==
    LET key == <<start_x, start_y, vm.viewport_state.size>>
    IN  \* a kept slice is returned as it is
        IF \E i \in 1..Len(used.slices) : used.slices[i] = key
        THEN [used EXCEPT !.slices = LRUUse(@, key, VIEWPORT_CACHE_SIZE)]
        ELSE The({[u EXCEPT !.slices = LRUUse(@, key, VIEWPORT_CACHE_SIZE)] :
                      u \in {UsedCells(used, vm, grid, start_x, start_y, 0)}})

\* the account after the i-th window of preload_surrounding_area(radius)
UsedWindow(used, vm, grid, radius, i) ==
    LET side == 2 * radius + 1
        size == vm.viewport_state.size
        x    == vm.viewport_state.x + ((i % side) - radius) * size
        y    == vm.viewport_state.y + ((i \div side) - radius) * size
    IN  IF /\ 0 <= x /\ x <= VM_MAP_LIMIT - size
           /\ 0 <= y /\ y <= VM_MAP_LIMIT - size
        THEN UsedSlice(used, vm, grid, x, y)
        ELSE used

\* the account after the n windows from the i-th on, in order, split in two
\* halves as in PreloadLoop
RECURSIVE UsedPreload(_, _, _, _, _, _)
UsedPreload(used, vm, grid, radius, i, n) ==
    IF n = 0 THEN used
    ELSE IF n = 1 THEN UsedWindow(used, vm, grid, radius, i)
    ELSE The({UsedPreload(u, vm, grid, radius, i + n \div 2, n - n \div 2) :
                  u \in {UsedPreload(used, vm, grid, radius, i, n \div 2)}})

InitLRU ==
    /\ map_grid = NewMapGrid
    /\ viewport_manager = NewViewportManager(NewMapGrid, VMViewportSize, VMCacheSize)
    /\ app = UsedSlice([tiles |-> << >>, slices |-> << >>], viewport_manager,
                       map_grid, viewport_manager.viewport_state.x,
                       viewport_manager.viewport_state.y)
    /\ iso_renderer = None
    /\ mouse_hit_detector = None
    /\ frame_count = 0
    /\ ret = Called("__init__", <<VMViewportSize, VMCacheSize>>, None)

CallLRU ==
    /\ frame_count < MaxLRUCalls
    /\ frame_count' = frame_count + 1
    /\ UNCHANGED <<map_grid, iso_renderer, mouse_hit_detector>>

\* get_tile_cached(x, y)
GetTileCached(x, y) ==
    /\ CallLRU
    /\ \E r \in {get_tile_cached(viewport_manager, map_grid, x, y)} :
           /\ viewport_manager' = r.vm
           /\ ret' = Called("get_tile_cached", <<x, y>>, r.tile)
    /\ app' = UsedTile(app, viewport_manager, map_grid, x, y)

\* get_viewport_tiles_cached(start_x, start_y, size)
GetSliceCached(start_x, start_y) ==
    /\ CallLRU
    /\ \E r \in {get_viewport_tiles_cached(viewport_manager, map_grid, start_x, start_y,
                                           viewport_manager.viewport_state.size)} :
           /\ viewport_manager' = r.vm
           /\ ret' = Called("get_viewport_tiles_cached", <<start_x, start_y>>, r.tiles)
    /\ app' = UsedSlice(app, viewport_manager, map_grid, start_x, start_y)

\* move_viewport(dx, dy): a window that moved has its slice looked up
MoveLRU(dx, dy) ==
    /\ CallLRU
    /\ \E r \in {move_viewport(viewport_manager, map_grid, dx, dy)} :
           /\ viewport_manager' = r.vm
           /\ ret' = Called("move_viewport", <<dx, dy>>, r.ret)
           /\ app' = IF r.ret
                     THEN UsedSlice(app, viewport_manager, map_grid,
                                    r.vm.viewport_state.x, r.vm.viewport_state.y)
                     ELSE app

\* preload_surrounding_area(radius)
PreloadLRU(radius) ==
    /\ CallLRU
    /\ viewport_manager' = preload_surrounding_area(viewport_manager, map_grid, radius)
    /\ ret' = Called("preload_surrounding_area", <<radius>>, None)
    /\ app' = UsedPreload(app, viewport_manager, map_grid, radius, 0,
                        (2 * radius + 1) * (2 * radius + 1))

\* clear_cache()
ClearLRU ==
    /\ CallLRU
    /\ viewport_manager' = vm_clear_cache(viewport_manager)
    /\ ret' = Called("clear_cache", << >>, None)
    /\ app' = [tiles |-> << >>, slices |-> << >>]

\* tiles of the window, and one beyond the grid; the window itself, the first
\* window a preload of radius 3 leaves in the slice cache, and a window far
\* from them
NextLRU ==
    \/ \E a \in {<<INITIAL_VIEWPORT + 1, INITIAL_VIEWPORT>>,
                  <<INITIAL_VIEWPORT, INITIAL_VIEWPORT>>, <<-1, 0>>} :
           GetTileCached(a[1], a[2])
    \/ \E a \in {<<INITIAL_VIEWPORT, INITIAL_VIEWPORT>>,
                  <<INITIAL_VIEWPORT - 2 * VMViewportSize,
                    INITIAL_VIEWPORT + VMViewportSize>>,
                  <<0, 0>>} :
           GetSliceCached(a[1], a[2])
    \/ \E a \in {<<1, 0>>, <<300, 300>>} : MoveLRU(a[1], a[2])
    \/ \E radius \in {1, 3} : PreloadLRU(radius)
    \/ ClearLRU

SpecLRU == InitLRU /\ [][NextLRU]_vars

\* the elements of a list
Range(list) == {list[i] : i \in 1..Len(list)}

\* C24: the tile cache and the slice cache evict in least-recently-used
\* order: the key removed is the one whose most recent access, insertion or
\* cache hit, is the oldest, and no other entry is removed; so each cache
\* holds the keys most recently looked up, as many as its capacity.
C24_EvictsLeastRecentlyUsed ==
    /\ DOMAIN viewport_manager.tile_cache = Range(app.tiles)
    /\ DOMAIN viewport_manager.viewport_cache = Range(app.slices)

\* the slice cache was full, its oldest slice was served again, and the
\* next new slice evicted another one: the slice served is still there
C24_HitSliceSurvived ==
    /\ ret.op = "get_viewport_tiles_cached"
    /\ ret.args = <<0, 0>>
    /\ Cardinality(DOMAIN viewport_manager.viewport_cache) = VIEWPORT_CACHE_SIZE
    /\ Len(app.slices) = VIEWPORT_CACHE_SIZE
    /\ app.slices[VIEWPORT_CACHE_SIZE - 1]
           = <<INITIAL_VIEWPORT - 2 * VMViewportSize,
               INITIAL_VIEWPORT + VMViewportSize, VMViewportSize>>
    /\ <<INITIAL_VIEWPORT - 2 * VMViewportSize, INITIAL_VIEWPORT + VMViewportSize,
         VMViewportSize>> \in DOMAIN viewport_manager.viewport_cache
    /\ <<INITIAL_VIEWPORT - VMViewportSize, INITIAL_VIEWPORT + VMViewportSize,
         VMViewportSize>> \notin DOMAIN viewport_manager.viewport_cache

\* the list has no element twice
DuplicateFree(list) == \A i, j \in 1..Len(list) : list[i] = list[j] => i = j

\* C29: after any sequence of tile lookups, slice lookups, moves, preloads and
\* clear_cache calls on a manager with cache_size >= 1, for both caches the
\* access-order list is a duplicate-free enumeration of exactly the cache's
\* keys, the tile cache holds at most cache_size entries and the slice cache
\* at most 20, and the tile cache never stores None.
C29_CachesWellFormed ==
    /\ DuplicateFree(viewport_manager.cache_access_order)
    /\ Range(viewport_manager.cache_access_order) = DOMAIN viewport_manager.tile_cache
    /\ DuplicateFree(viewport_manager.viewport_access_order)
    /\ Range(viewport_manager.viewport_access_order)
           = DOMAIN viewport_manager.viewport_cache
    /\ Cardinality(DOMAIN viewport_manager.tile_cache) <= viewport_manager.cache_size
    /\ Cardinality(DOMAIN viewport_manager.viewport_cache) <= VIEWPORT_CACHE_SIZE
    /\ \A k \in DOMAIN viewport_manager.tile_cache :
           viewport_manager.tile_cache[k] # None

\* both caches are full and a tile the grid does not have was looked up
C29_AbsentTileLookedUpWhenFull ==
    /\ ret.op = "get_tile_cached"
    /\ ret.value = None
    /\ Cardinality(DOMAIN viewport_manager.tile_cache) = viewport_manager.cache_size
    /\ Cardinality(DOMAIN viewport_manager.viewport_cache) = VIEWPORT_CACHE_SIZE

(***************************************************************************)
(* The run loop over frames whose inputs turn or reset the view, long      *)
(* enough for a full turn.  ret holds the input of the last update and the *)
(* rotation index before it.                                               *)
(***************************************************************************)
\* frames explored
MaxTurnFrames == 26

TurnFrame(in) ==
    /\ frame_count < MaxTurnFrames
    /\ frame_count' = frame_count + 1
    /\ \E w \in {update(TheWorld, in)} : Becomes(w)
    /\ ret' = Called("update", in, app.rotation_index)

\* Q, E, both, the reset alone and with a turn, and a frame without keys
NextTurn ==
    \E k \in {{"Q"}, {"E"}, {"Q", "E"}, {"C"}, {"Q", "C"}, {}} :
        TurnFrame(Input(k, 168, 209, 0, None, MapData(1, 0, 0, 1)))

SpecTurn == Init /\ [][NextTurn]_vars

\* the world after n frames' turns on the same keys, split in two halves
RECURSIVE Turned(_, _, _)
Turned(w, keys, n) ==
    IF n = 0 THEN w
    ELSE IF n = 1 THEN UpdateRotate(w, Input(keys, 0, 0, 0, None, None))
    ELSE The({Turned(first, keys, n - n \div 2) :
                  first \in {Turned(w, keys, n \div 2)}})

\* C25: after any sequence of rotate-left (Q), rotate-right (E) and reset (C)
\* steps, rotation_index is in 0..23 and camera_state.rotation equals
\* rotation_index * 15, within [0, 360); 24 rotations in the same direction
\* return to the starting index and angle, and a rotation left followed by a
\* rotation right is the identity.
C25_RotationCanonical ==
    /\ app.rotation_index \in 0..(360 \div ROTATION_STEP - 1)
    /\ app.camera_state.rotation = app.rotation_index * ROTATION_STEP
    /\ 0 <= app.camera_state.rotation /\ app.camera_state.rotation < 360
    /\ \A keys \in {{"Q"}, {"E"}} :
           Turned(TheWorld, keys, 360 \div ROTATION_STEP).app = app
    /\ Turned(Turned(TheWorld, {"Q"}, 1), {"E"}, 1).app = app
    /\ Turned(Turned(TheWorld, {"E"}, 1), {"Q"}, 1).app = app

\* the view stood at 15 degrees on the 24th frame and was turned left, back
\* to 0 degrees
C25_TurnedBackToStart ==
    /\ ret # None
    /\ ret.op = "update"
    /\ frame_count = 360 \div ROTATION_STEP
    /\ ret.args.keys = {"Q"}
    /\ ret.value = 1
    /\ app.rotation_index = 0
    /\ app.camera_state.rotation = 0

(***************************************************************************)
(* The roof test against the roof's quadrilateral                          *)
(***************************************************************************)
\* twice the signed area of a, b and the point (px, py): a and b in whole
\* pixels, the point in 1/ScreenScale pixels
Side(a, b, px, py) ==
    (b[1] - a[1]) * (py - a[2] * ScreenScale) - (b[2] - a[2]) * (px - a[1] * ScreenScale)

\* the point (px, py), relative to the tile's screen point, lies inside or on
\* the boundary of the quadrilateral top - right - bottom - left of a roof of
\* the scaled cell size: on one side of all four edges (or on them), and
\* within the quadrilateral's extent
InRoofQuad(px, py, scaled_cell_size) ==
    LET top    == <<scaled_cell_size \div 2, 0>>
        left   == <<0, scaled_cell_size \div 4>>
        right  == <<scaled_cell_size, scaled_cell_size \div 4>>
        bottom == <<scaled_cell_size \div 2, scaled_cell_size \div 2>>
        sides  == {Side(top, right, px, py), Side(right, bottom, px, py),
                   Side(bottom, left, px, py), Side(left, top, px, py)}
    IN  /\ (\A d \in sides : d >= 0) \/ (\A d \in sides : d <= 0)
        /\ 0 <= px /\ px <= scaled_cell_size * ScreenScale
        /\ 0 <= py /\ py <= (scaled_cell_size \div 2) * ScreenScale

\* the answer of the last _is_point_in_diamond call is that of InRoofQuad
AnswersInRoofQuad ==
    \E iso \in {grid_to_iso_compute(iso_renderer, ret.args[3], ret.args[4],
                                    ret.args[5].height, ret.args[6])} :
        ret.value = InRoofQuad(ret.args[1] - iso[1], ret.args[2] - iso[2],
                               ScaledCellSize(CELL_SIZE, ret.args[6].zoom))

MemoCapacity == 2

\* C27: after any sequence of grid_to_iso calls with arbitrarily many
\* distinct camera states and no clear_cache, the number of entries of the
\* projection memo never exceeds a fixed capacity, older entries being
\* evicted.
C27_MemoBounded ==
    Cardinality(DOMAIN iso_renderer.coord_cache) <= MemoCapacity

\* every call so far was computed and added an entry to the memo, none was
\* removed, and the memo holds more entries than the capacity
C27_MemoGrewWithEveryCall ==
    /\ ret.op = "grid_to_iso"
    /\ ~ret.cached
    /\ frame_count > MemoCapacity
    /\ Cardinality(DOMAIN iso_renderer.coord_cache) = frame_count

(***************************************************************************)
(* The tiles drawn and the tiles hit-tested                                *)
(***************************************************************************)
\* the tile get_tile_at_mouse fetches for window cell (lx, ly)
HitTestTile(vm, grid, lx, ly) ==
    get_tile_cached(vm, grid, lx + vm.viewport_state.x, ly + vm.viewport_state.y).tile

\* C28: in every state reached after an update step (map load F2, random map
\* generation F3 and reset C with their cache clears included), for every
\* window cell (lx, ly) the tile drawn and depth-sorted,
\* current_tiles[ly][lx], has the same height as the tile the hit tester
\* fetches for the backing coordinate (window.x + lx, window.y + ly).
C28_DrawnTilesAreHitTiles ==
    \A lx, ly \in 0..(app.viewport_size - 1) :
        \E tile \in {HitTestTile(viewport_manager, map_grid, lx, ly)} :
            tile # None => app.current_tiles[ly + 1][lx + 1].height = tile.height

\* a random map with a tile of height 5 at (132, 128) was generated while
\* the window stood at (120, 120): the slice drawn still has height 1 at
\* window cell (12, 8), where the hit tester fetches the tile of height 5
C28_GeneratedMapNotDrawn ==
    /\ frame_count > 0
    /\ map_grid.tiles = MapData(1, 132, 128, 5)
    /\ get_viewport_position(viewport_manager) = <<INITIAL_VIEWPORT, INITIAL_VIEWPORT>>
    /\ app.current_tiles[9][13].height = 1
    /\ HitTestTile(viewport_manager, map_grid, 12, 8).height = 5

(***************************************************************************)
(* The renderer and the hit detector over viewport managers of several     *)
(* window sizes: a grid point is projected at height 0 by the renderer and *)
(* the detector's estimate is taken for the projected point, at every      *)
(* rotation step, unzoomed and unpanned.  ret holds the last call: the     *)
(* grid point, the camera and the estimate.                                *)
(***************************************************************************)
\* window sizes a ViewportManager is built with: App's 16, and 8, 17 and 24
CentreSizes == {VIEWPORT_SIZE \div 2, VIEWPORT_SIZE, VIEWPORT_SIZE + 1,
                VIEWPORT_SIZE + VIEWPORT_SIZE \div 2}

InitCentre ==
    /\ map_grid = NewMapGrid
    /\ \E size \in CentreSizes :
           viewport_manager = NewViewportManager(map_grid, size, CACHE_SIZE)
    /\ iso_renderer = NewIsometricRenderer(CELL_SIZE, HEIGHT_UNIT)
    /\ mouse_hit_detector = NewMouseHitDetector(CELL_SIZE, HEIGHT_UNIT)
    /\ \E r \in 0..(360 \div ROTATION_STEP - 1) :
           app = update_camera_rotation([NewWorld.app EXCEPT !.rotation_index = r])
    /\ frame_count = 0
    /\ ret = Called("__init__", <<viewport_manager.viewport_state.size>>, None)

\* grid_to_iso(grid_x, grid_y, 0, camera_state), then the estimate of
\* _get_candidate_tiles for the point returned
EstimateProjected(grid_x, grid_y) ==
    /\ StepProj
    /\ \E r \in {grid_to_iso(iso_renderer, grid_x, grid_y, 0, app.camera_state)} :
           /\ iso_renderer' = r.renderer
           /\ ret' = Called("_get_candidate_tiles",
                            <<grid_x, grid_y, app.camera_state>>,
                            grid_estimate(mouse_hit_detector, viewport_manager,
                                          r.result[1], r.result[2], app.camera_state,
                                          WIN_WIDTH, WIN_HEIGHT))
    /\ UNCHANGED app

\* the view is turned as App.update turns it on Q and E
TurnView(keys) ==
    /\ StepProj
    /\ app' = UpdateRotate(World(app, None, None, None, None),
                           Input(keys, 0, 0, 0, None, None)).app
    /\ UNCHANGED <<iso_renderer, ret>>

NextCentre ==
    \/ \E g \in {<<0, 0>>, <<5, 11>>, <<8, 8>>} : EstimateProjected(g[1], g[2])
    \/ \E keys \in {{"Q"}, {"E"}} : TurnView(keys)

SpecCentre == InitCentre /\ [][NextCentre]_vars

\* C30: for every configured viewport size, the centre about which
\* _get_candidate_tiles undoes the rotation (viewport_size // 2) is the point
\* about which grid_to_iso and get_tile_depth apply it, so the inverse
\* rotation composed with the forward rotation is the identity on grid
\* coordinates.
C30_OneRotationCentre ==
    ret.op = "_get_candidate_tiles"
        => /\ viewport_manager.viewport_state.size \div 2 = RENDER_CENTER
           /\ EstimateIs(ret.value, 1, ret.args[1], ret.args[3].rotation)
           /\ EstimateIs(ret.value, 2, ret.args[2], ret.args[3].rotation)

\* over a window of 8 cells the point (0, 0) was projected by a camera turned
\* by 90 degrees, and the estimate for the projected point is not (0, 0)
C30_EstimateOffInSmallWindow ==
    /\ viewport_manager.viewport_state.size = VIEWPORT_SIZE \div 2
    /\ ret.op = "_get_candidate_tiles"
    /\ ret.args[1] = 0 /\ ret.args[2] = 0
    /\ ret.args[3].rotation = 90
    /\ ret.value # <<0, 0, ret.value[3]>>

====
